---- MODULE Spec2Model ----
(***************************************************************************)
(* jj-mcp-server: an MCP server that registers one tool per jj subcommand. *)
(* Each tool validates its parameters against a zod schema, builds an      *)
(* argument list, runs `jj` through execFile and returns the trimmed       *)
(* standard output or an "Error: ..." text (src/src/index.ts).             *)
(***************************************************************************)
EXTENDS Integers, Sequences, FiniteSets, TLC

VARIABLES
    phase,       \* "loading" | "connecting" | "running" | "exited"
    registered,  \* names passed to server.tool(...) so far, in call order
    diag,        \* lines written with console.error
    exitStatus,  \* argument of process.exit, -1 while the process lives
    pc,          \* per request: "free" | "received" | "waiting" | "returned" | "rejected"
    req,         \* per request: the CallTool request {name, arguments}
    spawnArgs,   \* per request: args handed to execFile
    spawnOpts,   \* per request: the {cwd} option handed to execFile
    spawns,      \* per request: number of execFile calls made for it
    proc,        \* per request: state / outcome of the execFile child
    result       \* per request: what the caller got back

vars == <<phase, registered, diag, exitStatus, pc, req, spawnArgs, spawnOpts,
          spawns, proc, result>>

----------------------------------------------------------------------------
(* Bounds of the model *)

\* number of CallTool requests the concurrent specification lets in flight
MaxRequests == 2
\* longest array a client sends
MaxArrayLen == 2
\* largest integer a client sends
MaxNum == 12
\* longest run of whitespace around a child's output
MaxPad == 1

----------------------------------------------------------------------------
(* JavaScript values as they arrive in a request's arguments *)

JSUndefined == [t |-> "undefined", s |-> "", n |-> 0, frac |-> FALSE, b |-> FALSE, a |-> <<>>]
JSString(v) == [JSUndefined EXCEPT !.t = "string", !.s = v]
\* a number n (frac = FALSE) or n + 1/2 (frac = TRUE)
JSNumber(v, half) == [JSUndefined EXCEPT !.t = "number", !.n = v, !.frac = half]
JSBoolean(v) == [JSUndefined EXCEPT !.t = "boolean", !.b = v]
\* an array whose elements are all strings
JSArray(v) == [JSUndefined EXCEPT !.t = "array", !.a = v]
\* an array holding an element that is not a string
JSMixedArray(v) == [JSUndefined EXCEPT !.t = "mixedarray", !.a = v]

\* Truthy as it would be if `if (param)` were `if (param !== undefined)` for strings
Truthy_EmptyString(v) ==
    CASE v.t = "undefined" -> FALSE
      [] v.t = "string" -> TRUE
      [] v.t = "number" -> v.n # 0 \/ v.frac
      [] v.t = "boolean" -> v.b
      [] OTHER -> TRUE

\* ToBoolean as applied by `if (param)`
Truthy(v) ==
    CASE v.t = "undefined" -> FALSE
      [] v.t = "string" -> v.s # ""
      [] v.t = "number" -> v.n # 0 \/ v.frac
      [] v.t = "boolean" -> v.b
      [] OTHER -> TRUE

\* `param !== undefined`
Defined(v) == v.t # "undefined"

Digit(d) == <<"0", "1", "2", "3", "4", "5", "6", "7", "8", "9">>[d + 1]

RECURSIVE NatToString(_)
NatToString(k) == IF k < 10 THEN Digit(k) ELSE NatToString(k \div 10) \o Digit(k % 10)

\* Number.prototype.toString() for the integers the schemas let through
NumberToString(k) == IF k < 0 THEN "-" \o NatToString(-k) ELSE NatToString(k)

----------------------------------------------------------------------------
(* zod schemas *)

\* one entry of a tool's parameter schema
Param(p, ty, required) == [name |-> p, type |-> ty, required |-> required]

\* ZodAccepts as it would be with z.number() alone on the numeric parameters
ZodAccepts_AnyNumber(ty, required, v) ==
    IF v.t = "undefined" THEN ~required
    ELSE CASE ty = "string" -> v.t = "string"
           [] ty = "boolean" -> v.t = "boolean"
           [] ty \in {"posint", "nonnegint"} -> v.t = "number"
           [] ty = "strarray" -> v.t = "array"
           [] ty = "enum_xn" -> v.t = "string" /\ v.s \in {"x", "n"}
           [] OTHER -> FALSE

\* ZodAccepts as it would be if the positive integers were declared
\* .nonnegative()
ZodAccepts_ZeroPositive(ty, required, v) ==
    IF v.t = "undefined" THEN ~required
    ELSE CASE ty = "string" -> v.t = "string"
           [] ty = "boolean" -> v.t = "boolean"
           [] ty \in {"posint", "nonnegint"} -> v.t = "number" /\ ~v.frac /\ v.n >= 0
           [] ty = "strarray" -> v.t = "array"
           [] ty = "enum_xn" -> v.t = "string" /\ v.s \in {"x", "n"}
           [] OTHER -> FALSE

\* z.string(), z.boolean(), z.number().int().positive(),
\* z.number().int().nonnegative(), z.array(z.string()), z.enum(["x","n"]),
\* each with or without .optional()
ZodAccepts(ty, required, v) ==
    IF v.t = "undefined" THEN ~required
    ELSE CASE ty = "string" -> v.t = "string"
           [] ty = "boolean" -> v.t = "boolean"
           [] ty = "posint" -> v.t = "number" /\ ~v.frac /\ v.n > 0
           [] ty = "nonnegint" -> v.t = "number" /\ ~v.frac /\ v.n >= 0
           [] ty = "strarray" -> v.t = "array"
           [] ty = "enum_xn" -> v.t = "string" /\ v.s \in {"x", "n"}
           [] OTHER -> FALSE

----------------------------------------------------------------------------
(* Handlers: the statements that build args, in source order *)

Lit(tok) == [k |-> "lit", v |-> tok]
Val(p) == [k |-> "val", v |-> p]
Spread(p) == [k |-> "spread", v |-> p]
ToStr(p) == [k |-> "toString", v |-> p]

\* const args = [...] / args.push(...)
Always(items) == [guard |-> "always", param |-> "", items |-> items]
\* if (param) { args.push(...) }
IfTruthy(p, items) == [guard |-> "truthy", param |-> p, items |-> items]
\* if (param !== undefined) { args.push(...) }
IfDefined(p, items) == [guard |-> "defined", param |-> p, items |-> items]

\* ItemTokens as it would be if an array were pushed by its first element
\* instead of being spread
ItemTokens_FirstOnly(item, params) ==
    CASE item.k = "lit" -> <<item.v>>
      [] item.k = "val" -> <<params[item.v].s>>
      [] item.k = "spread" ->
           IF params[item.v].a = <<>> THEN <<>> ELSE <<Head(params[item.v].a)>>
      [] item.k = "toString" -> <<NumberToString(params[item.v].n)>>

\* the tokens one element of an array literal / push argument list evaluates to
ItemTokens(item, params) ==
    CASE item.k = "lit" -> <<item.v>>
      [] item.k = "val" -> <<params[item.v].s>>
      [] item.k = "spread" -> params[item.v].a
      [] item.k = "toString" -> <<NumberToString(params[item.v].n)>>

RECURSIVE ItemsTokens(_, _)
ItemsTokens(items, params) ==
    IF items = <<>> THEN <<>>
    ELSE ItemTokens(Head(items), params) \o ItemsTokens(Tail(items), params)

\* GuardHolds as it would be if the handlers pushed every flag unguarded
GuardHolds_Unguarded(step, params) == TRUE

\* GuardHolds as it would be if every `param !== undefined` were `param`
GuardHolds_TruthyOnly(step, params) ==
    CASE step.guard = "always" -> TRUE
      [] OTHER -> Truthy(params[step.param])

\* GuardHolds as it would be if every `if (param)` were
\* `if (param !== undefined)`
GuardHolds_DefinedOnly(step, params) ==
    CASE step.guard = "always" -> TRUE
      [] OTHER -> Defined(params[step.param])

GuardHolds(step, params) ==
    CASE step.guard = "always" -> TRUE
      [] step.guard = "truthy" -> Truthy(params[step.param])
      [] step.guard = "defined" -> Defined(params[step.param])

StepTokens(step, params) ==
    IF GuardHolds(step, params) THEN ItemsTokens(step.items, params) ELSE <<>>

\* args after the first k statements of a handler
RECURSIVE BuildPrefix(_, _, _)
BuildPrefix(steps, k, params) ==
    IF k = 0 THEN <<>>
    ELSE BuildPrefix(steps, k - 1, params) \o StepTokens(steps[k], params)

\* args as handed to runJJCommand
BuildArgs(tool, params) == BuildPrefix(tool.steps, Len(tool.steps), params)

\* CwdArg as it would be if a handler ran jj inside the repository it was
\* given
CwdArg_RepoPath(tool, params) ==
    IF ~tool.cwd THEN JSUndefined
    ELSE IF Truthy(params["repoPath"]) THEN params["repoPath"] ELSE params["cwd"]

\* the second argument of runJJCommand: cwd, or nothing for git-clone and init
CwdArg(tool, params) == IF tool.cwd THEN params["cwd"] ELSE JSUndefined

----------------------------------------------------------------------------
(* The registered tools *)

\* the status tool as it would be if its handler left repoPath out of args
tool_status_NoRepository ==
    [name |-> "status",
     schema |-> <<Param("repoPath", "string", FALSE),
                  Param("cwd", "string", FALSE)>>,
     steps |-> <<Always(<<Lit("status")>>)>>,
     cwd |-> TRUE]

\* server.tool("status", ...), lines 33-52
tool_status ==
    [name |-> "status",
     schema |-> <<Param("repoPath", "string", FALSE),
                  Param("cwd", "string", FALSE)>>,
     steps |-> <<Always(<<Lit("status")>>),
                 IfTruthy("repoPath", <<Lit("--repository"), Val("repoPath")>>)>>,
     cwd |-> TRUE]

\* the rebase tool as it would be if its handler pushed the destination
\* before the source
tool_rebase_Swapped ==
    [name |-> "rebase",
     schema |-> <<Param("source", "string", TRUE),
                  Param("destination", "string", TRUE),
                  Param("repoPath", "string", FALSE),
                  Param("cwd", "string", FALSE)>>,
     steps |-> <<Always(<<Lit("rebase"), Lit("--destination"), Val("destination"), Lit("--source"), Val("source")>>),
                 IfTruthy("repoPath", <<Lit("--repository"), Val("repoPath")>>)>>,
     cwd |-> TRUE]

\* server.tool("rebase", ...), lines 55-78
tool_rebase ==
    [name |-> "rebase",
     schema |-> <<Param("source", "string", TRUE),
                  Param("destination", "string", TRUE),
                  Param("repoPath", "string", FALSE),
                  Param("cwd", "string", FALSE)>>,
     steps |-> <<Always(<<Lit("rebase"), Lit("--source"), Val("source"), Lit("--destination"), Val("destination")>>),
                 IfTruthy("repoPath", <<Lit("--repository"), Val("repoPath")>>)>>,
     cwd |-> TRUE]

\* server.tool("commit", ...), lines 81-102
tool_commit ==
    [name |-> "commit",
     schema |-> <<Param("message", "string", TRUE),
                  Param("repoPath", "string", FALSE),
                  Param("cwd", "string", FALSE)>>,
     steps |-> <<Always(<<Lit("commit"), Lit("-m"), Val("message")>>),
                 IfTruthy("repoPath", <<Lit("--repository"), Val("repoPath")>>)>>,
     cwd |-> TRUE]

\* server.tool("new", ...), lines 105-129
tool_new ==
    [name |-> "new",
     schema |-> <<Param("parents", "string", FALSE),
                  Param("repoPath", "string", FALSE),
                  Param("cwd", "string", FALSE)>>,
     steps |-> <<Always(<<Lit("new")>>),
                 IfTruthy("parents", <<Lit("--parents"), Val("parents")>>),
                 IfTruthy("repoPath", <<Lit("--repository"), Val("repoPath")>>)>>,
     cwd |-> TRUE]

\* server.tool("abandon", ...), lines 132-153
tool_abandon ==
    [name |-> "abandon",
     schema |-> <<Param("revisions", "string", TRUE),
                  Param("repoPath", "string", FALSE),
                  Param("cwd", "string", FALSE)>>,
     steps |-> <<Always(<<Lit("abandon"), Val("revisions")>>),
                 IfTruthy("repoPath", <<Lit("--repository"), Val("repoPath")>>)>>,
     cwd |-> TRUE]

\* the log tool as it would be if its handler always asked for patches
tool_log_Patch ==
    [name |-> "log",
     schema |-> <<Param("repoPath", "string", FALSE),
                  Param("cwd", "string", FALSE),
                  Param("limit", "posint", FALSE)>>,
     steps |-> <<Always(<<Lit("log"), Lit("-p")>>),
                 IfTruthy("repoPath", <<Lit("--repository"), Val("repoPath")>>),
                 IfDefined("limit", <<Lit("-n"), ToStr("limit")>>)>>,
     cwd |-> TRUE]

\* server.tool("log", ...), lines 156-180
tool_log ==
    [name |-> "log",
     schema |-> <<Param("repoPath", "string", FALSE),
                  Param("cwd", "string", FALSE),
                  Param("limit", "posint", FALSE)>>,
     steps |-> <<Always(<<Lit("log")>>),
                 IfTruthy("repoPath", <<Lit("--repository"), Val("repoPath")>>),
                 IfDefined("limit", <<Lit("-n"), ToStr("limit")>>)>>,
     cwd |-> TRUE]

\* server.tool("bookmark-create", ...), lines 183-209
tool_bookmark_create ==
    [name |-> "bookmark-create",
     schema |-> <<Param("name", "string", TRUE),
                  Param("revision", "string", FALSE),
                  Param("repoPath", "string", FALSE),
                  Param("cwd", "string", FALSE)>>,
     steps |-> <<Always(<<Lit("bookmark"), Lit("create"), Val("name")>>),
                 IfTruthy("revision", <<Lit("-r"), Val("revision")>>),
                 IfTruthy("repoPath", <<Lit("--repository"), Val("repoPath")>>)>>,
     cwd |-> TRUE]

\* server.tool("bookmark-delete", ...), lines 212-233
tool_bookmark_delete ==
    [name |-> "bookmark-delete",
     schema |-> <<Param("names", "strarray", TRUE),
                  Param("repoPath", "string", FALSE),
                  Param("cwd", "string", FALSE)>>,
     steps |-> <<Always(<<Lit("bookmark"), Lit("delete"), Spread("names")>>),
                 IfTruthy("repoPath", <<Lit("--repository"), Val("repoPath")>>)>>,
     cwd |-> TRUE]

\* server.tool("bookmark-forget", ...), lines 236-257
tool_bookmark_forget ==
    [name |-> "bookmark-forget",
     schema |-> <<Param("names", "strarray", TRUE),
                  Param("repoPath", "string", FALSE),
                  Param("cwd", "string", FALSE)>>,
     steps |-> <<Always(<<Lit("bookmark"), Lit("forget"), Spread("names")>>),
                 IfTruthy("repoPath", <<Lit("--repository"), Val("repoPath")>>)>>,
     cwd |-> TRUE]

\* server.tool("bookmark-list", ...), lines 260-284
tool_bookmark_list ==
    [name |-> "bookmark-list",
     schema |-> <<Param("repoPath", "string", FALSE),
                  Param("cwd", "string", FALSE),
                  Param("template", "string", FALSE)>>,
     steps |-> <<Always(<<Lit("bookmark"), Lit("list")>>),
                 IfTruthy("repoPath", <<Lit("--repository"), Val("repoPath")>>),
                 IfTruthy("template", <<Lit("-T"), Val("template")>>)>>,
     cwd |-> TRUE]

\* server.tool("bookmark-move", ...), lines 287-310
tool_bookmark_move ==
    [name |-> "bookmark-move",
     schema |-> <<Param("names", "strarray", TRUE),
                  Param("revision", "string", TRUE),
                  Param("repoPath", "string", FALSE),
                  Param("cwd", "string", FALSE)>>,
     steps |-> <<Always(<<Lit("bookmark"), Lit("move"), Spread("names"), Lit("-t"), Val("revision")>>),
                 IfTruthy("repoPath", <<Lit("--repository"), Val("repoPath")>>)>>,
     cwd |-> TRUE]

\* server.tool("bookmark-rename", ...), lines 313-336
tool_bookmark_rename ==
    [name |-> "bookmark-rename",
     schema |-> <<Param("oldName", "string", TRUE),
                  Param("newName", "string", TRUE),
                  Param("repoPath", "string", FALSE),
                  Param("cwd", "string", FALSE)>>,
     steps |-> <<Always(<<Lit("bookmark"), Lit("rename"), Val("oldName"), Val("newName")>>),
                 IfTruthy("repoPath", <<Lit("--repository"), Val("repoPath")>>)>>,
     cwd |-> TRUE]

\* server.tool("bookmark-set", ...), lines 339-362
tool_bookmark_set ==
    [name |-> "bookmark-set",
     schema |-> <<Param("name", "string", TRUE),
                  Param("revision", "string", TRUE),
                  Param("repoPath", "string", FALSE),
                  Param("cwd", "string", FALSE)>>,
     steps |-> <<Always(<<Lit("bookmark"), Lit("set"), Val("name"), Lit("-r"), Val("revision")>>),
                 IfTruthy("repoPath", <<Lit("--repository"), Val("repoPath")>>)>>,
     cwd |-> TRUE]

\* server.tool("bookmark-track", ...), lines 365-386
tool_bookmark_track ==
    [name |-> "bookmark-track",
     schema |-> <<Param("remoteBookmark", "string", TRUE),
                  Param("repoPath", "string", FALSE),
                  Param("cwd", "string", FALSE)>>,
     steps |-> <<Always(<<Lit("bookmark"), Lit("track"), Val("remoteBookmark")>>),
                 IfTruthy("repoPath", <<Lit("--repository"), Val("repoPath")>>)>>,
     cwd |-> TRUE]

\* server.tool("bookmark-untrack", ...), lines 389-410
tool_bookmark_untrack ==
    [name |-> "bookmark-untrack",
     schema |-> <<Param("remoteBookmark", "string", TRUE),
                  Param("repoPath", "string", FALSE),
                  Param("cwd", "string", FALSE)>>,
     steps |-> <<Always(<<Lit("bookmark"), Lit("untrack"), Val("remoteBookmark")>>),
                 IfTruthy("repoPath", <<Lit("--repository"), Val("repoPath")>>)>>,
     cwd |-> TRUE]

\* server.tool("diff", ...), lines 413-452
tool_diff ==
    [name |-> "diff",
     schema |-> <<Param("from", "string", FALSE),
                  Param("to", "string", FALSE),
                  Param("repoPath", "string", FALSE),
                  Param("cwd", "string", FALSE),
                  Param("context", "nonnegint", FALSE),
                  Param("stat", "boolean", FALSE)>>,
     steps |-> <<Always(<<Lit("diff")>>),
                 IfTruthy("from", <<Lit("-f"), Val("from")>>),
                 IfTruthy("to", <<Lit("-t"), Val("to")>>),
                 IfTruthy("repoPath", <<Lit("--repository"), Val("repoPath")>>),
                 IfDefined("context", <<Lit("--context"), ToStr("context")>>),
                 IfTruthy("stat", <<Lit("--stat")>>)>>,
     cwd |-> TRUE]

\* server.tool("git-clone", ...), lines 455-489
tool_git_clone ==
    [name |-> "git-clone",
     schema |-> <<Param("source", "string", TRUE),
                  Param("destination", "string", FALSE),
                  Param("remoteName", "string", FALSE),
                  Param("colocate", "boolean", FALSE),
                  Param("depth", "posint", FALSE)>>,
     steps |-> <<Always(<<Lit("git"), Lit("clone"), Val("source")>>),
                 IfTruthy("destination", <<Val("destination")>>),
                 IfTruthy("remoteName", <<Lit("--remote"), Val("remoteName")>>),
                 IfTruthy("colocate", <<Lit("--colocate")>>),
                 IfTruthy("depth", <<Lit("--depth"), ToStr("depth")>>)>>,
     cwd |-> FALSE]

\* server.tool("git-export", ...), lines 492-511
tool_git_export ==
    [name |-> "git-export",
     schema |-> <<Param("repoPath", "string", FALSE),
                  Param("cwd", "string", FALSE)>>,
     steps |-> <<Always(<<Lit("git"), Lit("export")>>),
                 IfTruthy("repoPath", <<Lit("--repository"), Val("repoPath")>>)>>,
     cwd |-> TRUE]

\* server.tool("git-fetch", ...), lines 514-543
tool_git_fetch ==
    [name |-> "git-fetch",
     schema |-> <<Param("remote", "string", FALSE),
                  Param("repoPath", "string", FALSE),
                  Param("cwd", "string", FALSE),
                  Param("branches", "strarray", FALSE)>>,
     steps |-> <<Always(<<Lit("git"), Lit("fetch")>>),
                 IfTruthy("remote", <<Lit("--remote"), Val("remote")>>),
                 IfTruthy("repoPath", <<Lit("--repository"), Val("repoPath")>>),
                 IfTruthy("branches", <<Lit("--branch"), Spread("branches")>>)>>,
     cwd |-> TRUE]

\* server.tool("git-import", ...), lines 546-565
tool_git_import ==
    [name |-> "git-import",
     schema |-> <<Param("repoPath", "string", FALSE),
                  Param("cwd", "string", FALSE)>>,
     steps |-> <<Always(<<Lit("git"), Lit("import")>>),
                 IfTruthy("repoPath", <<Lit("--repository"), Val("repoPath")>>)>>,
     cwd |-> TRUE]

\* the init tool as it would be if its handler passed a cwd, and the
\* repository, on
tool_init_WithCwd ==
    [name |-> "init",
     schema |-> <<Param("destination", "string", FALSE),
                  Param("colocate", "boolean", FALSE),
                  Param("gitRepo", "string", FALSE)>>,
     steps |-> <<Always(<<Lit("git"), Lit("init")>>),
                 IfTruthy("destination", <<Val("destination")>>),
                 IfTruthy("colocate", <<Lit("--colocate")>>),
                 IfTruthy("gitRepo", <<Lit("--git-repo"), Val("gitRepo")>>),
                 IfTruthy("repoPath", <<Lit("--repository"), Val("repoPath")>>)>>,
     cwd |-> TRUE]

\* server.tool("init", ...), lines 568-595
tool_init ==
    [name |-> "init",
     schema |-> <<Param("destination", "string", FALSE),
                  Param("colocate", "boolean", FALSE),
                  Param("gitRepo", "string", FALSE)>>,
     steps |-> <<Always(<<Lit("git"), Lit("init")>>),
                 IfTruthy("destination", <<Val("destination")>>),
                 IfTruthy("colocate", <<Lit("--colocate")>>),
                 IfTruthy("gitRepo", <<Lit("--git-repo"), Val("gitRepo")>>)>>,
     cwd |-> FALSE]

\* server.tool("git-push", ...), lines 598-656
tool_git_push ==
    [name |-> "git-push",
     schema |-> <<Param("remote", "string", FALSE),
                  Param("bookmarks", "strarray", FALSE),
                  Param("all", "boolean", FALSE),
                  Param("tracked", "boolean", FALSE),
                  Param("deleted", "boolean", FALSE),
                  Param("allowNew", "boolean", FALSE),
                  Param("repoPath", "string", FALSE),
                  Param("cwd", "string", FALSE)>>,
     steps |-> <<Always(<<Lit("git"), Lit("push")>>),
                 IfTruthy("remote", <<Lit("--remote"), Val("remote")>>),
                 IfTruthy("bookmarks", <<Lit("--bookmark"), Spread("bookmarks")>>),
                 IfTruthy("all", <<Lit("--all")>>),
                 IfTruthy("tracked", <<Lit("--tracked")>>),
                 IfTruthy("deleted", <<Lit("--deleted")>>),
                 IfTruthy("allowNew", <<Lit("--allow-new")>>),
                 IfTruthy("repoPath", <<Lit("--repository"), Val("repoPath")>>)>>,
     cwd |-> TRUE]

\* server.tool("git-remote-add", ...), lines 659-682
tool_git_remote_add ==
    [name |-> "git-remote-add",
     schema |-> <<Param("name", "string", TRUE),
                  Param("url", "string", TRUE),
                  Param("repoPath", "string", FALSE),
                  Param("cwd", "string", FALSE)>>,
     steps |-> <<Always(<<Lit("git"), Lit("remote"), Lit("add"), Val("name"), Val("url")>>),
                 IfTruthy("repoPath", <<Lit("--repository"), Val("repoPath")>>)>>,
     cwd |-> TRUE]

\* server.tool("git-remote-list", ...), lines 685-704
tool_git_remote_list ==
    [name |-> "git-remote-list",
     schema |-> <<Param("repoPath", "string", FALSE),
                  Param("cwd", "string", FALSE)>>,
     steps |-> <<Always(<<Lit("git"), Lit("remote"), Lit("list")>>),
                 IfTruthy("repoPath", <<Lit("--repository"), Val("repoPath")>>)>>,
     cwd |-> TRUE]

\* server.tool("git-remote-remove", ...), lines 707-728
tool_git_remote_remove ==
    [name |-> "git-remote-remove",
     schema |-> <<Param("name", "string", TRUE),
                  Param("repoPath", "string", FALSE),
                  Param("cwd", "string", FALSE)>>,
     steps |-> <<Always(<<Lit("git"), Lit("remote"), Lit("remove"), Val("name")>>),
                 IfTruthy("repoPath", <<Lit("--repository"), Val("repoPath")>>)>>,
     cwd |-> TRUE]

\* server.tool("git-remote-rename", ...), lines 731-754
tool_git_remote_rename ==
    [name |-> "git-remote-rename",
     schema |-> <<Param("oldName", "string", TRUE),
                  Param("newName", "string", TRUE),
                  Param("repoPath", "string", FALSE),
                  Param("cwd", "string", FALSE)>>,
     steps |-> <<Always(<<Lit("git"), Lit("remote"), Lit("rename"), Val("oldName"), Val("newName")>>),
                 IfTruthy("repoPath", <<Lit("--repository"), Val("repoPath")>>)>>,
     cwd |-> TRUE]

\* server.tool("git-remote-set-url", ...), lines 757-780
tool_git_remote_set_url ==
    [name |-> "git-remote-set-url",
     schema |-> <<Param("name", "string", TRUE),
                  Param("url", "string", TRUE),
                  Param("repoPath", "string", FALSE),
                  Param("cwd", "string", FALSE)>>,
     steps |-> <<Always(<<Lit("git"), Lit("remote"), Lit("set-url"), Val("name"), Val("url")>>),
                 IfTruthy("repoPath", <<Lit("--repository"), Val("repoPath")>>)>>,
     cwd |-> TRUE]

\* server.tool("git-root", ...), lines 783-802
tool_git_root ==
    [name |-> "git-root",
     schema |-> <<Param("repoPath", "string", FALSE),
                  Param("cwd", "string", FALSE)>>,
     steps |-> <<Always(<<Lit("git"), Lit("root")>>),
                 IfTruthy("repoPath", <<Lit("--repository"), Val("repoPath")>>)>>,
     cwd |-> TRUE]

\* server.tool("show", ...), lines 805-834
tool_show ==
    [name |-> "show",
     schema |-> <<Param("revision", "string", FALSE),
                  Param("repoPath", "string", FALSE),
                  Param("cwd", "string", FALSE),
                  Param("context", "nonnegint", FALSE)>>,
     steps |-> <<Always(<<Lit("show")>>),
                 IfTruthy("revision", <<Lit("-r"), Val("revision")>>),
                 IfTruthy("repoPath", <<Lit("--repository"), Val("repoPath")>>),
                 IfDefined("context", <<Lit("--context"), ToStr("context")>>)>>,
     cwd |-> TRUE]

\* server.tool("revert", ...), lines 837-864
tool_revert ==
    [name |-> "revert",
     schema |-> <<Param("revisions", "strarray", TRUE),
                  Param("destination", "string", FALSE),
                  Param("repoPath", "string", FALSE),
                  Param("cwd", "string", FALSE)>>,
     steps |-> <<Always(<<Lit("revert")>>),
                 IfTruthy("destination", <<Lit("-d"), Val("destination")>>),
                 Always(<<Spread("revisions")>>),
                 IfTruthy("repoPath", <<Lit("--repository"), Val("repoPath")>>)>>,
     cwd |-> TRUE]

\* server.tool("restore", ...), lines 867-899
tool_restore ==
    [name |-> "restore",
     schema |-> <<Param("source", "string", FALSE),
                  Param("destination", "string", FALSE),
                  Param("paths", "strarray", TRUE),
                  Param("repoPath", "string", FALSE),
                  Param("cwd", "string", FALSE)>>,
     steps |-> <<Always(<<Lit("restore")>>),
                 IfTruthy("source", <<Lit("-f"), Val("source")>>),
                 IfTruthy("destination", <<Lit("-t"), Val("destination")>>),
                 Always(<<Spread("paths")>>),
                 IfTruthy("repoPath", <<Lit("--repository"), Val("repoPath")>>)>>,
     cwd |-> TRUE]

\* server.tool("interdiff", ...), lines 902-930
tool_interdiff ==
    [name |-> "interdiff",
     schema |-> <<Param("from", "string", TRUE),
                  Param("to", "string", TRUE),
                  Param("repoPath", "string", FALSE),
                  Param("cwd", "string", FALSE),
                  Param("context", "nonnegint", FALSE)>>,
     steps |-> <<Always(<<Lit("interdiff"), Lit("-f"), Val("from"), Lit("-t"), Val("to")>>),
                 IfTruthy("repoPath", <<Lit("--repository"), Val("repoPath")>>),
                 IfDefined("context", <<Lit("--context"), ToStr("context")>>)>>,
     cwd |-> TRUE]

\* server.tool("evolog", ...), lines 933-967
tool_evolog ==
    [name |-> "evolog",
     schema |-> <<Param("revision", "string", FALSE),
                  Param("repoPath", "string", FALSE),
                  Param("cwd", "string", FALSE),
                  Param("limit", "posint", FALSE),
                  Param("patch", "boolean", FALSE)>>,
     steps |-> <<Always(<<Lit("evolog")>>),
                 IfTruthy("revision", <<Lit("-r"), Val("revision")>>),
                 IfTruthy("repoPath", <<Lit("--repository"), Val("repoPath")>>),
                 IfTruthy("limit", <<Lit("-n"), ToStr("limit")>>),
                 IfTruthy("patch", <<Lit("-p")>>)>>,
     cwd |-> TRUE]

\* server.tool("edit", ...), lines 970-998
tool_edit ==
    [name |-> "edit",
     schema |-> <<Param("revision", "string", TRUE),
                  Param("repoPath", "string", FALSE),
                  Param("cwd", "string", FALSE)>>,
     steps |-> <<Always(<<Lit("edit"), Val("revision")>>),
                 IfTruthy("repoPath", <<Lit("--repository"), Val("repoPath")>>)>>,
     cwd |-> TRUE]

\* server.tool("file-annotate", ...), lines 1001-1028
tool_file_annotate ==
    [name |-> "file-annotate",
     schema |-> <<Param("path", "string", TRUE),
                  Param("revision", "string", FALSE),
                  Param("repoPath", "string", FALSE),
                  Param("cwd", "string", FALSE)>>,
     steps |-> <<Always(<<Lit("file"), Lit("annotate")>>),
                 IfTruthy("revision", <<Lit("-r"), Val("revision")>>),
                 Always(<<Val("path")>>),
                 IfTruthy("repoPath", <<Lit("--repository"), Val("repoPath")>>)>>,
     cwd |-> TRUE]

\* the file-chmod tool as it would be if its handler began args with chmod
tool_file_chmod_NoFile ==
    [name |-> "file-chmod",
     schema |-> <<Param("mode", "enum_xn", TRUE),
                  Param("paths", "strarray", TRUE),
                  Param("revision", "string", FALSE),
                  Param("repoPath", "string", FALSE),
                  Param("cwd", "string", FALSE)>>,
     steps |-> <<Always(<<Lit("chmod")>>),
                 IfTruthy("revision", <<Lit("-r"), Val("revision")>>),
                 Always(<<Val("mode")>>),
                 Always(<<Spread("paths")>>),
                 IfTruthy("repoPath", <<Lit("--repository"), Val("repoPath")>>)>>,
     cwd |-> TRUE]

\* server.tool("file-chmod", ...), lines 1031-1061
tool_file_chmod ==
    [name |-> "file-chmod",
     schema |-> <<Param("mode", "enum_xn", TRUE),
                  Param("paths", "strarray", TRUE),
                  Param("revision", "string", FALSE),
                  Param("repoPath", "string", FALSE),
                  Param("cwd", "string", FALSE)>>,
     steps |-> <<Always(<<Lit("file"), Lit("chmod")>>),
                 IfTruthy("revision", <<Lit("-r"), Val("revision")>>),
                 Always(<<Val("mode")>>),
                 Always(<<Spread("paths")>>),
                 IfTruthy("repoPath", <<Lit("--repository"), Val("repoPath")>>)>>,
     cwd |-> TRUE]

\* server.tool("file-list", ...), lines 1064-1093
tool_file_list ==
    [name |-> "file-list",
     schema |-> <<Param("revision", "string", FALSE),
                  Param("paths", "strarray", FALSE),
                  Param("repoPath", "string", FALSE),
                  Param("cwd", "string", FALSE)>>,
     steps |-> <<Always(<<Lit("file"), Lit("list")>>),
                 IfTruthy("revision", <<Lit("-r"), Val("revision")>>),
                 IfTruthy("paths", <<Spread("paths")>>),
                 IfTruthy("repoPath", <<Lit("--repository"), Val("repoPath")>>)>>,
     cwd |-> TRUE]

\* server.tool("file-show", ...), lines 1096-1123
tool_file_show ==
    [name |-> "file-show",
     schema |-> <<Param("paths", "strarray", TRUE),
                  Param("revision", "string", FALSE),
                  Param("repoPath", "string", FALSE),
                  Param("cwd", "string", FALSE)>>,
     steps |-> <<Always(<<Lit("file"), Lit("show")>>),
                 IfTruthy("revision", <<Lit("-r"), Val("revision")>>),
                 Always(<<Spread("paths")>>),
                 IfTruthy("repoPath", <<Lit("--repository"), Val("repoPath")>>)>>,
     cwd |-> TRUE]

\* server.tool("file-track", ...), lines 1126-1147
tool_file_track ==
    [name |-> "file-track",
     schema |-> <<Param("paths", "strarray", TRUE),
                  Param("repoPath", "string", FALSE),
                  Param("cwd", "string", FALSE)>>,
     steps |-> <<Always(<<Lit("file"), Lit("track"), Spread("paths")>>),
                 IfTruthy("repoPath", <<Lit("--repository"), Val("repoPath")>>)>>,
     cwd |-> TRUE]

\* server.tool("file-untrack", ...), lines 1150-1171
tool_file_untrack ==
    [name |-> "file-untrack",
     schema |-> <<Param("paths", "strarray", TRUE),
                  Param("repoPath", "string", FALSE),
                  Param("cwd", "string", FALSE)>>,
     steps |-> <<Always(<<Lit("file"), Lit("untrack"), Spread("paths")>>),
                 IfTruthy("repoPath", <<Lit("--repository"), Val("repoPath")>>)>>,
     cwd |-> TRUE]

\* server.tool("squash", ...), lines 1174-1213
tool_squash ==
    [name |-> "squash",
     schema |-> <<Param("source", "string", FALSE),
                  Param("destination", "string", FALSE),
                  Param("paths", "strarray", FALSE),
                  Param("keepEmptied", "boolean", FALSE),
                  Param("repoPath", "string", FALSE),
                  Param("cwd", "string", FALSE)>>,
     steps |-> <<Always(<<Lit("squash")>>),
                 IfTruthy("source", <<Lit("-f"), Val("source")>>),
                 IfTruthy("destination", <<Lit("-t"), Val("destination")>>),
                 IfTruthy("paths", <<Spread("paths")>>),
                 IfTruthy("keepEmptied", <<Lit("-k")>>),
                 IfTruthy("repoPath", <<Lit("--repository"), Val("repoPath")>>)>>,
     cwd |-> TRUE]

\* server.tool("workspace-root", ...), lines 1216-1235
tool_workspace_root ==
    [name |-> "workspace-root",
     schema |-> <<Param("repoPath", "string", FALSE),
                  Param("cwd", "string", FALSE)>>,
     steps |-> <<Always(<<Lit("workspace"), Lit("root")>>),
                 IfTruthy("repoPath", <<Lit("--repository"), Val("repoPath")>>)>>,
     cwd |-> TRUE]

\* server.tool("operation-abandon", ...), lines 1238-1259
tool_operation_abandon ==
    [name |-> "operation-abandon",
     schema |-> <<Param("operation", "string", TRUE),
                  Param("repoPath", "string", FALSE),
                  Param("cwd", "string", FALSE)>>,
     steps |-> <<Always(<<Lit("operation"), Lit("abandon"), Val("operation")>>),
                 IfTruthy("repoPath", <<Lit("--repository"), Val("repoPath")>>)>>,
     cwd |-> TRUE]

\* server.tool("operation-diff", ...), lines 1262-1296
tool_operation_diff ==
    [name |-> "operation-diff",
     schema |-> <<Param("from", "string", FALSE),
                  Param("to", "string", FALSE),
                  Param("repoPath", "string", FALSE),
                  Param("cwd", "string", FALSE),
                  Param("context", "nonnegint", FALSE)>>,
     steps |-> <<Always(<<Lit("operation"), Lit("diff")>>),
                 IfTruthy("from", <<Lit("-f"), Val("from")>>),
                 IfTruthy("to", <<Lit("-t"), Val("to")>>),
                 IfTruthy("repoPath", <<Lit("--repository"), Val("repoPath")>>),
                 IfDefined("context", <<Lit("--context"), ToStr("context")>>)>>,
     cwd |-> TRUE]

\* server.tool("operation-log", ...), lines 1299-1323
tool_operation_log ==
    [name |-> "operation-log",
     schema |-> <<Param("limit", "posint", FALSE),
                  Param("repoPath", "string", FALSE),
                  Param("cwd", "string", FALSE)>>,
     steps |-> <<Always(<<Lit("operation"), Lit("log")>>),
                 IfTruthy("limit", <<Lit("-n"), ToStr("limit")>>),
                 IfTruthy("repoPath", <<Lit("--repository"), Val("repoPath")>>)>>,
     cwd |-> TRUE]

\* server.tool("operation-restore", ...), lines 1326-1347
tool_operation_restore ==
    [name |-> "operation-restore",
     schema |-> <<Param("operation", "string", TRUE),
                  Param("repoPath", "string", FALSE),
                  Param("cwd", "string", FALSE)>>,
     steps |-> <<Always(<<Lit("operation"), Lit("restore"), Val("operation")>>),
                 IfTruthy("repoPath", <<Lit("--repository"), Val("repoPath")>>)>>,
     cwd |-> TRUE]

\* server.tool("operation-show", ...), lines 1350-1374
tool_operation_show ==
    [name |-> "operation-show",
     schema |-> <<Param("operation", "string", FALSE),
                  Param("repoPath", "string", FALSE),
                  Param("cwd", "string", FALSE)>>,
     steps |-> <<Always(<<Lit("operation"), Lit("show")>>),
                 IfTruthy("operation", <<Val("operation")>>),
                 IfTruthy("repoPath", <<Lit("--repository"), Val("repoPath")>>)>>,
     cwd |-> TRUE]

\* server.tool("operation-undo", ...), lines 1377-1401
tool_operation_undo ==
    [name |-> "operation-undo",
     schema |-> <<Param("operation", "string", FALSE),
                  Param("repoPath", "string", FALSE),
                  Param("cwd", "string", FALSE)>>,
     steps |-> <<Always(<<Lit("operation"), Lit("undo")>>),
                 IfTruthy("operation", <<Val("operation")>>),
                 IfTruthy("repoPath", <<Lit("--repository"), Val("repoPath")>>)>>,
     cwd |-> TRUE]

\* server.tool("config-get", ...), lines 1404-1425
tool_config_get ==
    [name |-> "config-get",
     schema |-> <<Param("name", "string", TRUE),
                  Param("repoPath", "string", FALSE),
                  Param("cwd", "string", FALSE)>>,
     steps |-> <<Always(<<Lit("config"), Lit("get"), Val("name")>>),
                 IfTruthy("repoPath", <<Lit("--repository"), Val("repoPath")>>)>>,
     cwd |-> TRUE]

\* server.tool("config-list", ...), lines 1428-1480
tool_config_list ==
    [name |-> "config-list",
     schema |-> <<Param("name", "string", FALSE),
                  Param("includeDefaults", "boolean", FALSE),
                  Param("includeOverridden", "boolean", FALSE),
                  Param("user", "boolean", FALSE),
                  Param("repo", "boolean", FALSE),
                  Param("repoPath", "string", FALSE),
                  Param("cwd", "string", FALSE)>>,
     steps |-> <<Always(<<Lit("config"), Lit("list")>>),
                 IfTruthy("name", <<Val("name")>>),
                 IfTruthy("includeDefaults", <<Lit("--include-defaults")>>),
                 IfTruthy("includeOverridden", <<Lit("--include-overridden")>>),
                 IfTruthy("user", <<Lit("--user")>>),
                 IfTruthy("repo", <<Lit("--repo")>>),
                 IfTruthy("repoPath", <<Lit("--repository"), Val("repoPath")>>)>>,
     cwd |-> TRUE]

\* server.tool("config-set", ...), lines 1483-1517
tool_config_set ==
    [name |-> "config-set",
     schema |-> <<Param("name", "string", TRUE),
                  Param("value", "string", TRUE),
                  Param("user", "boolean", FALSE),
                  Param("repo", "boolean", FALSE),
                  Param("repoPath", "string", FALSE),
                  Param("cwd", "string", FALSE)>>,
     steps |-> <<Always(<<Lit("config"), Lit("set")>>),
                 IfTruthy("user", <<Lit("--user")>>),
                 IfTruthy("repo", <<Lit("--repo")>>),
                 Always(<<Val("name"), Val("value")>>),
                 IfTruthy("repoPath", <<Lit("--repository"), Val("repoPath")>>)>>,
     cwd |-> TRUE]

\* server.tool("config-unset", ...), lines 1520-1552
tool_config_unset ==
    [name |-> "config-unset",
     schema |-> <<Param("name", "string", TRUE),
                  Param("user", "boolean", FALSE),
                  Param("repo", "boolean", FALSE),
                  Param("repoPath", "string", FALSE),
                  Param("cwd", "string", FALSE)>>,
     steps |-> <<Always(<<Lit("config"), Lit("unset")>>),
                 IfTruthy("user", <<Lit("--user")>>),
                 IfTruthy("repo", <<Lit("--repo")>>),
                 Always(<<Val("name")>>),
                 IfTruthy("repoPath", <<Lit("--repository"), Val("repoPath")>>)>>,
     cwd |-> TRUE]

\* server.tool("config-path", ...), lines 1555-1584
tool_config_path ==
    [name |-> "config-path",
     schema |-> <<Param("user", "boolean", FALSE),
                  Param("repo", "boolean", FALSE),
                  Param("repoPath", "string", FALSE),
                  Param("cwd", "string", FALSE)>>,
     steps |-> <<Always(<<Lit("config"), Lit("path")>>),
                 IfTruthy("user", <<Lit("--user")>>),
                 IfTruthy("repo", <<Lit("--repo")>>),
                 IfTruthy("repoPath", <<Lit("--repository"), Val("repoPath")>>)>>,
     cwd |-> TRUE]

\* server.tool("tag-list", ...), lines 1587-1616
tool_tag_list ==
    [name |-> "tag-list",
     schema |-> <<Param("names", "strarray", FALSE),
                  Param("repoPath", "string", FALSE),
                  Param("cwd", "string", FALSE),
                  Param("template", "string", FALSE)>>,
     steps |-> <<Always(<<Lit("tag"), Lit("list")>>),
                 IfTruthy("names", <<Spread("names")>>),
                 IfTruthy("repoPath", <<Lit("--repository"), Val("repoPath")>>),
                 IfTruthy("template", <<Lit("-T"), Val("template")>>)>>,
     cwd |-> TRUE]

\* the describe tool as it would be if its handler pushed revisions before
\* the message
tool_describe_RevisionsFirst ==
    [name |-> "describe",
     schema |-> <<Param("message", "string", TRUE),
                  Param("revisions", "string", FALSE),
                  Param("resetAuthor", "boolean", FALSE),
                  Param("author", "string", FALSE),
                  Param("repoPath", "string", FALSE),
                  Param("cwd", "string", FALSE)>>,
     steps |-> <<Always(<<Lit("describe")>>),
                 IfTruthy("repoPath", <<Lit("--repository"), Val("repoPath")>>),
                 IfTruthy("revisions", <<Val("revisions")>>),
                 Always(<<Lit("-m"), Val("message")>>),
                 IfTruthy("resetAuthor", <<Lit("--reset-author")>>),
                 IfTruthy("author", <<Lit("--author"), Val("author")>>)>>,
     cwd |-> TRUE]

\* server.tool("describe", ...), lines 1619-1678
tool_describe ==
    [name |-> "describe",
     schema |-> <<Param("message", "string", TRUE),
                  Param("revisions", "string", FALSE),
                  Param("resetAuthor", "boolean", FALSE),
                  Param("author", "string", FALSE),
                  Param("repoPath", "string", FALSE),
                  Param("cwd", "string", FALSE)>>,
     steps |-> <<Always(<<Lit("describe")>>),
                 IfTruthy("repoPath", <<Lit("--repository"), Val("repoPath")>>),
                 Always(<<Lit("-m"), Val("message")>>),
                 IfTruthy("resetAuthor", <<Lit("--reset-author")>>),
                 IfTruthy("author", <<Lit("--author"), Val("author")>>),
                 IfTruthy("revisions", <<Val("revisions")>>)>>,
     cwd |-> TRUE]

\* every server.tool(...) call of the module, in source order
ToolCalls ==
    <<tool_status, tool_rebase, tool_commit, tool_new, tool_abandon, 
      tool_log, tool_bookmark_create, tool_bookmark_delete, 
      tool_bookmark_forget, tool_bookmark_list, tool_bookmark_move, 
      tool_bookmark_rename, tool_bookmark_set, tool_bookmark_track, 
      tool_bookmark_untrack, tool_diff, tool_git_clone, tool_git_export, 
      tool_git_fetch, tool_git_import, tool_init, tool_git_push, 
      tool_git_remote_add, tool_git_remote_list, tool_git_remote_remove, 
      tool_git_remote_rename, tool_git_remote_set_url, tool_git_root, 
      tool_show, tool_revert, tool_restore, tool_interdiff, tool_evolog, 
      tool_edit, tool_file_annotate, tool_file_chmod, tool_file_list, 
      tool_file_show, tool_file_track, tool_file_untrack, tool_squash, 
      tool_workspace_root, tool_operation_abandon, tool_operation_diff, 
      tool_operation_log, tool_operation_restore, tool_operation_show, 
      tool_operation_undo, tool_config_get, tool_config_list, 
      tool_config_set, tool_config_unset, tool_config_path, tool_tag_list, 
      tool_describe>>


\* the literals of the handlers that begin with a dash: the options, as
\* against the subcommand names
Flags ==
    {"--all", "--allow-new", "--author", "--bookmark", "--branch",
     "--colocate", "--context", "--deleted", "--depth", "--destination",
     "--git-repo", "--include-defaults", "--include-overridden",
     "--parents", "--remote", "--repo", "--repository", "--reset-author",
     "--source", "--stat", "--tracked", "--user", "-T", "-d", "-f", "-k",
     "-m", "-n", "-p", "-r", "-t"}
\* McpServer's name-keyed lookup of a registered tool
ToolNamed(n) == ToolCalls[CHOOSE k \in 1..Len(ToolCalls) : ToolCalls[k].name = n]

ToolNames == [k \in 1..Len(ToolCalls) |-> ToolCalls[k].name]

----------------------------------------------------------------------------
(* Text: a sequence of characters (or of longer pieces in fixed messages) *)

\* const JJ_COMMAND = "jj"
JJ_COMMAND == "jj"

\* characters String.prototype.trim removes
Whitespace == {" ", "\n", "\t", "\r"}

RECURSIVE TrimStart(_)
TrimStart(s) ==
    IF s # <<>> /\ Head(s) \in Whitespace THEN TrimStart(Tail(s)) ELSE s

RECURSIVE TrimEnd(_)
TrimEnd(s) ==
    IF s # <<>> /\ s[Len(s)] \in Whitespace THEN TrimEnd(SubSeq(s, 1, Len(s) - 1)) ELSE s

\* String.prototype.trim
Trim(s) == TrimEnd(TrimStart(s))

\* the literal prefix of the two template strings in the catch block
ErrorPrefix == <<"E", "r", "r", "o", "r", ":", " ">>

\* Array.prototype.join(" ") as execFile uses it to name the command
RECURSIVE JoinSpace(_)
JoinSpace(toks) ==
    IF toks = <<>> THEN <<>>
    ELSE IF Len(toks) = 1 THEN <<toks[1]>>
    ELSE <<toks[1], " ">> \o JoinSpace(Tail(toks))

----------------------------------------------------------------------------
(* execFile(JJ_COMMAND, args, { cwd }) *)

\* options.maxBuffer is not passed, so execFile's default applies (1024 * 1024
\* bytes per stream); the model counts it in characters of its short texts
maxBuffer == 8

\* a string with a NUL character in it, which spawn refuses as an argument
NulString == "nul\\0"

NoOutcome == [kind |-> "none", code |-> 0, sys |-> "", out |-> <<>>, err |-> <<>>, last |-> ""]
\* the child ran and exited with a status, having written out and err;
\* last names the stream whose data arrived last
Exited(code, out, err, last) ==
    [kind |-> "exit", code |-> code, sys |-> "", out |-> out, err |-> err, last |-> last]
\* the child ran and was terminated by a signal
Signalled(sig, out, err, last) ==
    [kind |-> "signal", code |-> 0, sys |-> sig, out |-> out, err |-> err, last |-> last]
\* the child could not be started: the 'error' event with a system error
SpawnFailed(errno) ==
    [kind |-> "error", code |-> 0, sys |-> errno, out |-> <<>>, err |-> <<>>, last |-> ""]
\* execFile itself threw before starting anything
Threw == [kind |-> "throw", code |-> 0, sys |-> "ERR_INVALID_ARG_VALUE", out |-> <<>>, err |-> <<>>, last |-> ""]

Truncate(s) == IF Len(s) > maxBuffer THEN SubSeq(s, 1, maxBuffer) ELSE s

\* the stream whose data handler set `ex` last, "" when neither overflowed
Overflowed(o) ==
    CASE Len(o.out) > maxBuffer /\ Len(o.err) > maxBuffer -> o.last
      [] Len(o.out) > maxBuffer -> "stdout"
      [] Len(o.err) > maxBuffer -> "stderr"
      [] OTHER -> ""

\* spawn validates its arguments synchronously
ThrowsSync(args, cwd) ==
    \/ \E k \in 1..Len(args) : args[k] = NulString
    \/ cwd.t = "string" /\ cwd.s = NulString

\* how the promise of execFileAsync settles for a given fate of the child:
\* fulfilled with {stdout, stderr}, or rejected with an Error that carries
\* message and, when a child existed or failed to start, stdout and stderr
ExecFileAsync(args, o) ==
    CASE o.kind = "throw" ->
           [ok |-> FALSE, stdout |-> <<>>, stderr |-> <<>>, hasStderr |-> FALSE,
            message |-> <<"The argument 'args' must be a string without null bytes">>]
      [] o.kind = "error" ->
           [ok |-> FALSE, stdout |-> <<>>, stderr |-> <<>>, hasStderr |-> TRUE,
            message |-> <<"spawn", " ", JJ_COMMAND, " ", o.sys>>]
      [] OTHER ->
           IF Overflowed(o) = "" /\ o.kind = "exit" /\ o.code = 0
           THEN [ok |-> TRUE, stdout |-> o.out, stderr |-> o.err, hasStderr |-> TRUE,
                 message |-> <<>>]
           ELSE [ok |-> FALSE, stdout |-> Truncate(o.out), stderr |-> Truncate(o.err),
                 hasStderr |-> TRUE,
                 message |->
                    IF Overflowed(o) # ""
                    THEN <<Overflowed(o), " ", "maxBuffer length exceeded">>
                    ELSE <<"Command failed: ">> \o JoinSpace(<<JJ_COMMAND>> \o args)
                           \o <<"\n">> \o Truncate(o.err)]

Fulfilled(v) == [state |-> "fulfilled", value |-> v]
Rejected(v) == [state |-> "rejected", value |-> v]

\* runJJCommand as it would be if the catch block always used error.stderr
runJJCommand_StderrOnly(args, o) ==
    LET r == ExecFileAsync(args, o) IN
    IF r.ok THEN Fulfilled(Trim(r.stdout))
    ELSE Fulfilled(ErrorPrefix \o Trim(r.stderr))

\* runJJCommand as it would be if the catch block rethrew errors that carry
\* no standard error
runJJCommand_Rethrow(args, o) ==
    LET r == ExecFileAsync(args, o) IN
    IF r.ok THEN Fulfilled(Trim(r.stdout))
    ELSE IF r.hasStderr /\ r.stderr # <<>>
         THEN Fulfilled(ErrorPrefix \o Trim(r.stderr))
         ELSE Rejected(r.message)

\* runJJCommand as it would be if the catch block ended with a fixed text
\* instead of error.message
runJJCommand_Generic(args, o) ==
    LET r == ExecFileAsync(args, o) IN
    IF r.ok THEN Fulfilled(Trim(r.stdout))
    ELSE IF r.hasStderr /\ r.stderr # <<>>
         THEN Fulfilled(ErrorPrefix \o Trim(r.stderr))
         ELSE Fulfilled(ErrorPrefix \o <<"Unknown error">>)

\* async function runJJCommand(args, cwd): the promise it returns
runJJCommand(args, o) ==
    LET r == ExecFileAsync(args, o) IN
    IF r.ok THEN Fulfilled(Trim(r.stdout))
    ELSE IF r.hasStderr /\ r.stderr # <<>>
         THEN Fulfilled(ErrorPrefix \o Trim(r.stderr))
         ELSE Fulfilled(ErrorPrefix \o r.message)

----------------------------------------------------------------------------
(* Requests and child outcomes the environment can produce *)

ReqIds == 1..MaxRequests

Request(n, arguments) == [name |-> n, arguments |-> arguments]
NoRequest == Request("", [p \in {} |-> JSUndefined])

\* the values a client sends for one parameter: absent, values of the
\* declared type, and values of a wrong type or outside the constraint
ClientValues(p) ==
    {JSUndefined} \cup
    CASE p.type = "string" ->
           {JSString(""), JSString("$" \o p.name), JSNumber(7, FALSE)}
      [] p.type = "boolean" ->
           {JSBoolean(TRUE), JSBoolean(FALSE), JSString("true")}
      [] p.type \in {"posint", "nonnegint"} ->
           {JSNumber(-1, FALSE), JSNumber(0, FALSE), JSNumber(1, FALSE),
            JSNumber(MaxNum, FALSE), JSNumber(1, TRUE), JSString("1")}
      [] p.type = "strarray" ->
           {JSArray([k \in 1..len |-> "$" \o p.name \o "." \o NumberToString(k)]) :
                len \in 0..MaxArrayLen}
           \cup {JSString("$" \o p.name), JSMixedArray(<<"$" \o p.name \o ".1">>)}
           \cup (IF p.required THEN {} ELSE {JSArray(<<"">>)})
      [] p.type = "enum_xn" ->
           {JSString("x"), JSString("n"), JSString("y"), JSNumber(1, FALSE)}

\* every assignment of client values to the first k parameters of a schema
RECURSIVE ArgumentMaps(_, _)
ArgumentMaps(schema, k) ==
    IF k = 0 THEN {[p \in {} |-> JSUndefined]}
    ELSE {f @@ (schema[k].name :> v) :
            f \in ArgumentMaps(schema, k - 1), v \in ClientValues(schema[k])}

\* repoPath and cwd as a client sends them to a tool whose schema declares
\* neither (git-clone, init): z.object(...) strips the keys it does not know
UndeclaredArgs(tool) ==
    [{"repoPath", "cwd"} \ {tool.schema[k].name : k \in 1..Len(tool.schema)} ->
        {JSUndefined, JSString("$undeclared")}]

RequestsFor(tool) ==
    {Request(tool.name, f @@ g) :
        f \in ArgumentMaps(tool.schema, Len(tool.schema)), g \in UndeclaredArgs(tool)}

\* a request with the listed arguments and every other parameter absent
Call(tool, given) ==
    Request(tool.name,
            [p \in {tool.schema[k].name : k \in 1..Len(tool.schema)} |->
                IF p \in DOMAIN given THEN given[p] ELSE JSUndefined])

\* the few requests used where the child's behaviour is what varies
FewRequests ==
    {Call(tool_status, [cwd |-> JSString("$cwd")]),
     Call(tool_status, [repoPath |-> JSString(NulString)]),
     Call(tool_status, [cwd |-> JSNumber(7, FALSE)]),
     Call(tool_rebase, [source |-> JSString("@-"), destination |-> JSString("main")]),
     Call(tool_rebase, [destination |-> JSString("main")]),
     Request("no-such-tool", [p \in {} |-> JSUndefined])}

Pads == UNION {[1..k -> {" ", "\n"}] : k \in 0..MaxPad}

\* what a child may write to a stream: short texts with and without inner
\* and outer whitespace, whitespace only, a text that reads like an error
\* result, and texts longer than maxBuffer
Cores ==
    {<<>>, <<"a">>, <<"a", " ", "\n", "b">>, ErrorPrefix \o <<"x">>,
     <<"a", "b", "c", "d", "e", "f", "g", "h", "i">>}

Texts == {l \o c \o t : l \in Pads, c \in Cores, t \in Pads}

\* the texts a stream cannot hold in full
LongTexts == {s \in Texts : Len(s) > maxBuffer}

\* exit with status 0 or 1, or death by SIGTERM, for given stream contents
Ended(how, out, err, last) ==
    IF how = "SIGTERM" THEN Signalled(how, out, err, last)
    ELSE Exited(IF how = "exit 0" THEN 0 ELSE 1, out, err, last)

\* the ways a started child ends
Endings == {"exit 0", "exit 1", "SIGTERM"}

\* when both streams outgrow maxBuffer either may be the one whose data
\* arrived last
Lasts(out, err) ==
    IF out \in LongTexts /\ err \in LongTexts THEN {"stdout", "stderr"} ELSE {""}

\* the system errors with which spawning jj fails
SpawnErrors == {"ENOENT", "EACCES"}

\* a handful of fates, for the specifications where requests interleave
FewOutcomes ==
    {Exited(0, <<" ", "a", "\n">>, <<>>, ""),
     Exited(1, <<>>, <<"e", "\n">>, ""),
     SpawnFailed("ENOENT")}

----------------------------------------------------------------------------
(* The server *)

NoResult == [kind |-> "none", content |-> <<>>]
\* the SDK's answer to a request it does not hand to a handler
Rejection(why) == [kind |-> "rejected", content |-> <<[type |-> why, text |-> <<>>]>>]
\* Response as it would be if the handlers returned a heading block before
\* the output
Response_TwoBlocks(output) ==
    [kind |-> "response",
     content |-> <<[type |-> "text", text |-> <<"jj">>], [type |-> "text", text |-> output]>>]

\* return { content: [{ type: "text", text: output }] }
Response(output) == [kind |-> "response", content |-> <<[type |-> "text", text |-> output]>>]
\* the handler's promise rejected
Failure == [kind |-> "failed", content |-> <<>>]

NotStarted == [state |-> "none", outcome |-> NoOutcome]
Running == [state |-> "running", outcome |-> NoOutcome]
Settled(o) == [state |-> "settled", outcome |-> o]

IsRegistered(n) == \E k \in 1..Len(registered) : registered[k] = n

\* z.object(schema).safeParse(arguments) succeeds
ValidArguments(tool, arguments) ==
    \A k \in 1..Len(tool.schema) :
        ZodAccepts(tool.schema[k].type, tool.schema[k].required,
                   arguments[tool.schema[k].name])

\* the request is handed to a handler
Accepted(r) == IsRegistered(r.name) /\ ValidArguments(ToolNamed(r.name), r.arguments)

\* LoopBusy as it would be if runJJCommand used execFileSync: the event loop
\* is held while a child runs
LoopBusy_Sync == \E j \in DOMAIN pc : pc[j] = "waiting" /\ proc[j].state = "running"

\* execFileAsync returns a promise and the handler awaits it: a pending child
\* keeps no other callback from running
LoopBusy == FALSE

Quiet == [i \in ReqIds |-> "free"]

\* state as the module starts to load
Init ==
    /\ phase = "loading"
    /\ registered = <<>>
    /\ diag = <<>>
    /\ exitStatus = -1
    /\ pc = Quiet
    /\ req = [i \in ReqIds |-> NoRequest]
    /\ spawnArgs = [i \in ReqIds |-> <<>>]
    /\ spawnOpts = [i \in ReqIds |-> JSUndefined]
    /\ spawns = [i \in ReqIds |-> 0]
    /\ proc = [i \in ReqIds |-> NotStarted]
    /\ result = [i \in ReqIds |-> NoResult]

\* state once main() has connected the transport
InitRunning ==
    /\ phase = "running"
    /\ registered = ToolNames
    /\ diag = <<"jj MCP Server running on stdio">>
    /\ exitStatus = -1
    /\ pc = Quiet
    /\ req = [i \in ReqIds |-> NoRequest]
    /\ spawnArgs = [i \in ReqIds |-> <<>>]
    /\ spawnOpts = [i \in ReqIds |-> JSUndefined]
    /\ spawns = [i \in ReqIds |-> 0]
    /\ proc = [i \in ReqIds |-> NotStarted]
    /\ result = [i \in ReqIds |-> NoResult]

\* the next server.tool(name, description, schema, handler) call of the
\* module body; McpServer throws when the name is taken
RegisterTool ==
    /\ phase = "loading"
    /\ Len(registered) < Len(ToolCalls)
    /\ LET n == ToolCalls[Len(registered) + 1].name IN
       IF IsRegistered(n)
       THEN /\ phase' = "exited"
            /\ exitStatus' = 1
            /\ UNCHANGED registered
       ELSE /\ registered' = Append(registered, n)
            /\ UNCHANGED <<phase, exitStatus>>
    /\ UNCHANGED <<diag, pc, req, spawnArgs, spawnOpts, spawns, proc, result>>

\* main(): new StdioServerTransport(); await server.connect(transport)
Main ==
    /\ phase = "loading"
    /\ Len(registered) = Len(ToolCalls)
    /\ phase' = "connecting"
    /\ UNCHANGED <<registered, diag, exitStatus, pc, req, spawnArgs, spawnOpts,
                   spawns, proc, result>>

\* connect resolved: console.error("jj MCP Server running on stdio")
Connected ==
    /\ phase = "connecting"
    /\ phase' = "running"
    /\ diag' = Append(diag, "jj MCP Server running on stdio")
    /\ UNCHANGED <<registered, exitStatus, pc, req, spawnArgs, spawnOpts,
                   spawns, proc, result>>

\* ConnectFailed as it would be if main().catch only returned: nothing is
\* logged and the process ends with status 0
ConnectFailed_Silent ==
    /\ phase = "connecting"
    /\ phase' = "exited"
    /\ exitStatus' = 0
    /\ UNCHANGED <<registered, diag, pc, req, spawnArgs, spawnOpts, spawns, proc, result>>

\* connect rejected: main().catch logs and calls process.exit(1)
ConnectFailed ==
    /\ phase = "connecting"
    /\ phase' = "exited"
    /\ diag' = Append(diag, "Fatal error in jj MCP Server:")
    /\ exitStatus' = 1
    /\ UNCHANGED <<registered, pc, req, spawnArgs, spawnOpts, spawns, proc, result>>

\* the transport delivers a tools/call request
Receive(i, r) ==
    /\ phase = "running"
    /\ pc[i] = "free"
    /\ \A j \in ReqIds : j < i => pc[j] # "free"
    /\ pc' = [pc EXCEPT ![i] = "received"]
    /\ req' = [req EXCEPT ![i] = r]
    /\ UNCHANGED <<phase, registered, diag, exitStatus, spawnArgs, spawnOpts,
                   spawns, proc, result>>

\* Dispatch as it would be if a call to an unknown name registered that
\* name instead of being refused
Dispatch_Registering(i) ==
    /\ phase = "running"
    /\ pc[i] = "received"
    /\ IF ~IsRegistered(req[i].name)
       THEN /\ pc' = [pc EXCEPT ![i] = "rejected"]
            /\ result' = [result EXCEPT ![i] = Rejection("tool not found")]
            /\ registered' = Append(registered, req[i].name)
            /\ UNCHANGED <<spawnArgs, spawnOpts, spawns, proc>>
       ELSE LET tool == ToolNamed(req[i].name) IN
            IF ~ValidArguments(tool, req[i].arguments)
            THEN /\ pc' = [pc EXCEPT ![i] = "rejected"]
                 /\ result' = [result EXCEPT ![i] = Rejection("invalid arguments")]
                 /\ UNCHANGED <<registered, spawnArgs, spawnOpts, spawns, proc>>
            ELSE /\ pc' = [pc EXCEPT ![i] = "waiting"]
                 /\ spawnArgs' = [spawnArgs EXCEPT ![i] = BuildArgs(tool, req[i].arguments)]
                 /\ spawnOpts' = [spawnOpts EXCEPT ![i] = CwdArg(tool, req[i].arguments)]
                 /\ spawns' = [spawns EXCEPT ![i] = @ + 1]
                 /\ proc' = [proc EXCEPT ![i] = Running]
                 /\ UNCHANGED <<registered, result>>
    /\ UNCHANGED <<phase, diag, exitStatus, req>>

\* the SDK looks the tool up and parses the arguments; on success the
\* handler runs up to its await: it builds args and calls runJJCommand,
\* which calls execFileAsync
Dispatch(i) ==
    /\ phase = "running"
    /\ pc[i] = "received"
    /\ ~LoopBusy
    /\ IF ~IsRegistered(req[i].name)
       THEN /\ pc' = [pc EXCEPT ![i] = "rejected"]
            /\ result' = [result EXCEPT ![i] = Rejection("tool not found")]
            /\ UNCHANGED <<spawnArgs, spawnOpts, spawns, proc>>
       ELSE LET tool == ToolNamed(req[i].name) IN
            IF ~ValidArguments(tool, req[i].arguments)
            THEN /\ pc' = [pc EXCEPT ![i] = "rejected"]
                 /\ result' = [result EXCEPT ![i] = Rejection("invalid arguments")]
                 /\ UNCHANGED <<spawnArgs, spawnOpts, spawns, proc>>
            ELSE LET args == BuildArgs(tool, req[i].arguments)
                     cwd == CwdArg(tool, req[i].arguments)
                 IN /\ pc' = [pc EXCEPT ![i] = "waiting"]
                    /\ spawnArgs' = [spawnArgs EXCEPT ![i] = args]
                    /\ spawnOpts' = [spawnOpts EXCEPT ![i] = cwd]
                    /\ spawns' = [spawns EXCEPT ![i] = @ + 1]
                    /\ proc' = [proc EXCEPT ![i] =
                                  IF ThrowsSync(args, cwd) THEN Settled(Threw) ELSE Running]
                    /\ UNCHANGED result
    /\ UNCHANGED <<phase, registered, diag, exitStatus, req>>

\* ChildEnds as it would be if runJJCommand ran jj again after a run that
\* did not exit with status 0
ChildEnds_Retry(i, o) ==
    /\ pc[i] = "waiting"
    /\ proc[i].state = "running"
    /\ IF (o.kind # "exit" \/ o.code # 0) /\ spawns[i] < 2
       THEN /\ spawns' = [spawns EXCEPT ![i] = @ + 1]
            /\ UNCHANGED proc
       ELSE /\ proc' = [proc EXCEPT ![i] = Settled(o)]
            /\ UNCHANGED spawns
    /\ UNCHANGED <<phase, registered, diag, exitStatus, pc, req, spawnArgs,
                   spawnOpts, result>>

\* ChildEnds as it would be if the child were started with spawn and no
\* 'error' listener: a failure to start is an uncaught exception
ChildEnds_Unhandled(i, o) ==
    /\ pc[i] = "waiting"
    /\ proc[i].state = "running"
    /\ proc' = [proc EXCEPT ![i] = Settled(o)]
    /\ IF o.kind = "error"
       THEN phase' = "exited" /\ exitStatus' = 1
       ELSE UNCHANGED <<phase, exitStatus>>
    /\ UNCHANGED <<registered, diag, pc, req, spawnArgs, spawnOpts, spawns, result>>

\* the child exits, is killed, or fails to start: execFile's callback runs
ChildEnds(i, o) ==
    /\ pc[i] = "waiting"
    /\ proc[i].state = "running"
    /\ proc' = [proc EXCEPT ![i] = Settled(o)]
    /\ UNCHANGED <<phase, registered, diag, exitStatus, pc, req, spawnArgs,
                   spawnOpts, spawns, result>>

\* Resume as it would be if execFile's result were kept in a variable of the
\* module that every call of runJJCommand writes and reads
Resume_SharedResult(i) ==
    /\ phase = "running"
    /\ pc[i] = "waiting"
    /\ proc[i].state = "settled"
    /\ \E j \in ReqIds :
          /\ proc[j].state = "settled"
          /\ result' = [result EXCEPT ![i] =
                          Response(runJJCommand(spawnArgs[j], proc[j].outcome).value)]
    /\ pc' = [pc EXCEPT ![i] = "returned"]
    /\ UNCHANGED <<phase, registered, diag, exitStatus, req, spawnArgs,
                   spawnOpts, spawns, proc>>

\* Resume as it would be if execFile were given a timeout: the handler
\* returns while the child still runs
Resume_Timeout(i) ==
    /\ phase = "running"
    /\ pc[i] = "waiting"
    /\ proc[i].state \in {"running", "settled"}
    /\ result' = [result EXCEPT ![i] =
                    IF proc[i].state = "settled"
                    THEN Response(runJJCommand(spawnArgs[i], proc[i].outcome).value)
                    ELSE Response(ErrorPrefix \o <<"timed out">>)]
    /\ pc' = [pc EXCEPT ![i] = "returned"]
    /\ UNCHANGED <<phase, registered, diag, exitStatus, req, spawnArgs,
                   spawnOpts, spawns, proc>>

\* runJJCommand resumes after its await and the handler returns the content
Resume(i) ==
    /\ phase = "running"
    /\ pc[i] = "waiting"
    /\ proc[i].state = "settled"
    /\ ~LoopBusy
    /\ LET p == runJJCommand(spawnArgs[i], proc[i].outcome) IN
       result' = [result EXCEPT ![i] =
                    IF p.state = "fulfilled" THEN Response(p.value) ELSE Failure]
    /\ pc' = [pc EXCEPT ![i] = "returned"]
    /\ UNCHANGED <<phase, registered, diag, exitStatus, req, spawnArgs,
                   spawnOpts, spawns, proc>>

\* the server from module load on, with requests in flight together
Next ==
    \/ RegisterTool
    \/ Main
    \/ Connected
    \/ ConnectFailed
    \/ \E i \in ReqIds, r \in FewRequests : Receive(i, r)
    \/ \E i \in ReqIds : Dispatch(i)
    \/ \E i \in ReqIds, o \in FewOutcomes : ChildEnds(i, o)
    \/ \E i \in ReqIds : Resume(i)

Spec == Init /\ [][Next]_vars

\* one request to any tool with any arguments, up to the call of execFile
NextTools ==
    \/ pc[1] = "free" /\ \E k \in 1..Len(ToolCalls) :
                           \E r \in RequestsFor(ToolCalls[k]) : Receive(1, r)
    \/ Dispatch(1)

SpecTools == InitRunning /\ [][NextTools]_vars

\* one request, and everything its child can do
NextRun ==
    \/ \E r \in FewRequests : Receive(1, r)
    \/ Dispatch(1)
    \/ proc[1].state = "running" /\ \E how \in Endings, out \in Texts, err \in Texts :
            \E last \in Lasts(out, err) : ChildEnds(1, Ended(how, out, err, last))
    \/ proc[1].state = "running" /\ \E e \in SpawnErrors : ChildEnds(1, SpawnFailed(e))
    \/ Resume(1)

SpecRun == InitRunning /\ [][NextRun]_vars

\* one request, and a child that writes no more than maxBuffer to a stream
NextRunShort ==
    \/ \E r \in FewRequests : Receive(1, r)
    \/ Dispatch(1)
    \/ proc[1].state = "running" /\
          \E how \in Endings, out \in Texts \ LongTexts, err \in Texts \ LongTexts :
             ChildEnds(1, Ended(how, out, err, ""))
    \/ proc[1].state = "running" /\ \E e \in SpawnErrors : ChildEnds(1, SpawnFailed(e))
    \/ Resume(1)

SpecRunShort == InitRunning /\ [][NextRunShort]_vars

----------------------------------------------------------------------------
(* Properties *)

StartsWith(s, p) == Len(s) >= Len(p) /\ SubSeq(s, 1, Len(p)) = p

\* the schema entry of the parameter named p
SchemaEntry(tool, p) ==
    tool.schema[CHOOSE k \in 1..Len(tool.schema) : tool.schema[k].name = p]

ParamNames(tool) == {tool.schema[k].name : k \in 1..Len(tool.schema)}

OptionalParams(tool) == {p \in ParamNames(tool) : ~SchemaEntry(tool, p).required}

\* the parameters a handler turns into tokens (cwd is not one of them)
TokenParams(tool) == {tool.steps[k].param : k \in 1..Len(tool.steps)} \ {""}

\* the statement of the handler that is guarded by parameter p
StepIndex(tool, p) == CHOOSE k \in 1..Len(tool.steps) : tool.steps[k].param = p

\* the tool a request in flight addresses
ToolOf(i) == ToolNamed(req[i].name)

\* a value breaks its parameter's schema: missing though required, of the
\* wrong type, outside the integer constraint, or outside the enumeration
Violates(entry, v) ==
    \/ entry.required /\ v.t = "undefined"
    \/ entry.type \in {"string", "enum_xn"} /\ v.t \in {"number", "boolean", "array", "mixedarray"}
    \/ entry.type = "boolean" /\ v.t \in {"string", "number", "array", "mixedarray"}
    \/ entry.type \in {"posint", "nonnegint"} /\ v.t \in {"string", "boolean", "array", "mixedarray"}
    \/ entry.type = "strarray" /\ v.t \in {"string", "number", "boolean", "mixedarray"}
    \/ entry.type \in {"posint", "nonnegint"} /\ v.t = "number" /\ v.frac
    \/ entry.type = "posint" /\ v.t = "number" /\ v.n < 1
    \/ entry.type = "nonnegint" /\ v.t = "number" /\ v.n < 0
    \/ entry.type = "enum_xn" /\ v.t = "string" /\ v.s \notin {"x", "n"}

ViolatesSchema(r) ==
    \E p \in ParamNames(ToolNamed(r.name)) :
        Violates(SchemaEntry(ToolNamed(r.name), p), r.arguments[p])

\* C1: a request whose parameters violate its tool's schema is never handed
\* to execFile: nothing is spawned for it, and once handled it has been
\* rejected.
C1_ValidationPrecedesSpawn ==
    \A i \in ReqIds :
        (pc[i] # "free" /\ IsRegistered(req[i].name) /\ ViolatesSchema(req[i])) =>
            /\ spawns[i] = 0
            /\ proc[i].state = "none"
            /\ pc[i] \in {"received", "rejected"}
            /\ pc[i] = "rejected" => result[i].kind = "rejected"

\* a log request with limit 0 has been rejected
C1_Witness ==
    /\ pc[1] = "rejected"
    /\ req[1].name = "log"
    /\ req[1].arguments["limit"] = JSNumber(0, FALSE)
    /\ req[1].arguments["repoPath"] = JSString("$repoPath")
    /\ spawns[1] = 0

\* t is s with leading and trailing whitespace removed and nothing else changed
IsTrimOf(t, s) ==
    \E a \in 0..Len(s) : \E b \in a..Len(s) :
        /\ t = SubSeq(s, a + 1, b)
        /\ \A k \in (1..a) \cup ((b + 1)..Len(s)) : s[k] \in Whitespace
        /\ t # <<>> => t[1] \notin Whitespace /\ t[Len(t)] \notin Whitespace

ReturnedText(i) == result[i].content[1].text

\* the child of request i ran to an exit with this status test
ExitedWith(i, Test(_)) ==
    /\ pc[i] = "returned"
    /\ proc[i].outcome.kind = "exit"
    /\ Test(proc[i].outcome.code)

IsZero(c) == c = 0
NonZero(c) == c # 0

\* C2: whenever the child exits with status zero, whatever it wrote to
\* standard output, the text returned is that output with leading and
\* trailing whitespace removed.
C2_ZeroExitReturnsTrimmedStdout ==
    \A i \in ReqIds :
        ExitedWith(i, IsZero) =>
            /\ result[i].kind = "response"
            /\ IsTrimOf(ReturnedText(i), proc[i].outcome.out)

\* C3: whenever the child exits non-zero having written something to
\* standard error, the text returned is "Error: " followed by that standard
\* error with leading and trailing whitespace removed.
C3_NonZeroExitReturnsTrimmedStderr ==
    \A i \in ReqIds :
        (ExitedWith(i, NonZero) /\ proc[i].outcome.err # <<>>) =>
            /\ result[i].kind = "response"
            /\ StartsWith(ReturnedText(i), ErrorPrefix)
            /\ IsTrimOf(SubSeq(ReturnedText(i), Len(ErrorPrefix) + 1, Len(ReturnedText(i))),
                        proc[i].outcome.err)

\* C4: when the child cannot be started, the handler still returns a text,
\* which begins with "Error: " and goes on with a non-empty diagnostic that
\* names the system error.
C4_SpawnFailureReported ==
    \A i \in ReqIds :
        (pc[i] = "returned" /\ proc[i].outcome.kind = "error") =>
            /\ result[i].kind = "response"
            /\ StartsWith(ReturnedText(i), ErrorPrefix)
            /\ Len(ReturnedText(i)) > Len(ErrorPrefix)
            /\ \E k \in (Len(ErrorPrefix) + 1)..Len(ReturnedText(i)) :
                  ReturnedText(i)[k] = proc[i].outcome.sys

\* a request has returned after jj was not found
C4_Witness ==
    /\ pc[1] = "returned"
    /\ proc[1].outcome = SpawnFailed("ENOENT")
    /\ result[1].kind = "response"

\* C5: the promise of runJJCommand is fulfilled with a text for every fate
\* of the child (zero exit, non-zero exit, signal, failure to start, a
\* throw of execFile itself); it is never rejected.
C5_RunNeverRejects ==
    \A i \in ReqIds :
        /\ proc[i].state = "settled" =>
              runJJCommand(spawnArgs[i], proc[i].outcome).state = "fulfilled"
        /\ pc[i] = "returned" => result[i].kind = "response"

\* a request has returned after execFile threw on a NUL in an argument
C5_Witness ==
    /\ pc[1] = "returned"
    /\ proc[1].outcome.kind = "throw"
    /\ result[1].kind = "response"
    /\ StartsWith(ReturnedText(1), ErrorPrefix)

\* C6: the returned text begins with "Error: " exactly when the child did
\* not exit with status zero.
C6_ErrorPrefixIffFailure ==
    \A i \in ReqIds :
        pc[i] = "returned" =>
            (StartsWith(ReturnedText(i), ErrorPrefix) <=> ~ExitedWith(i, IsZero))

\* request i was accepted and its handler has called runJJCommand
Called(i) == pc[i] \in {"waiting", "returned"}

\* the tokens of the unguarded statements of a handler: the subcommand path
\* and the required parameters with their flags
RECURSIVE FixedTokens(_, _, _)
FixedTokens(steps, k, params) ==
    IF k = 0 THEN <<>>
    ELSE FixedTokens(steps, k - 1, params) \o
         (IF steps[k].guard = "always" THEN ItemsTokens(steps[k].items, params) ELSE <<>>)

\* C7: with every optional parameter omitted, args is exactly the tool's
\* subcommand tokens and its required positional and flag arguments; for
\* instance bookmark-create with only name "feature-x" builds
\* [bookmark, create, feature-x].
C7_RequiredOnlyArgs ==
    /\ \A i \in ReqIds :
          (Called(i) /\ \A p \in OptionalParams(ToolOf(i)) : req[i].arguments[p] = JSUndefined) =>
              spawnArgs[i] = FixedTokens(ToolOf(i).steps, Len(ToolOf(i).steps), req[i].arguments)
    /\ BuildArgs(tool_bookmark_create,
                 Call(tool_bookmark_create, [name |-> JSString("feature-x")]).arguments)
          = <<"bookmark", "create", "feature-x">>

\* a restore request with paths alone has reached execFile
C7_Witness ==
    /\ pc[1] = "waiting"
    /\ req[1] = Call(tool_restore, [paths |-> JSArray(<<"$paths.1">>)])
    /\ spawnArgs[1] = <<"restore", "$paths.1">>

\* r with parameter p taken out
Without(r, p) == [r.arguments EXCEPT ![p] = JSUndefined]

\* the flag a guarded statement pushes (none for a positional parameter)
FlagOf(step) == SelectSeq(step.items, LAMBDA it : it.k = "lit")

\* the value tokens a supplied parameter stands for
ValueTokens(v) ==
    CASE v.t = "string" -> <<v.s>>
      [] v.t = "number" -> <<NumberToString(v.n)>>
      [] v.t = "array" -> v.a
      [] OTHER -> <<>>

\* args of request i, split where the statement guarded by p pushes
ArgsAround(i, p, tokens) ==
    LET tool == ToolOf(i)
        base == BuildArgs(tool, Without(req[i], p))
        at == Len(BuildPrefix(tool.steps, StepIndex(tool, p) - 1, req[i].arguments))
    IN spawnArgs[i] = SubSeq(base, 1, at) \o tokens \o SubSeq(base, at + 1, Len(base))

FlagTokens(i, p) ==
    LET items == FlagOf(ToolOf(i).steps[StepIndex(ToolOf(i), p)])
    IN [k \in 1..Len(items) |-> items[k].v]

\* C8 as stated: every optional parameter that is supplied, with whatever
\* value the schema accepts, puts its flag and its value into args at its
\* place.
C8_SuppliedParamOneFlag ==
    \A i \in ReqIds :
        Called(i) =>
            \A p \in OptionalParams(ToolOf(i)) \cap TokenParams(ToolOf(i)) :
                req[i].arguments[p] # JSUndefined =>
                    ArgsAround(i, p, FlagTokens(i, p) \o ValueTokens(req[i].arguments[p]))

\* the values for which a handler pushes: every number and array, every
\* string but the empty one, and true
Pushes(v) ==
    \/ v.t \in {"number", "array"}
    \/ v.t = "string" /\ v.s # ""
    \/ v.t = "boolean" /\ v.b

\* C8 (amended): an optional parameter supplied with a non-empty string,
\* true, an integer or an array puts its flag once, followed by its value or
\* elements, into args at its place; omitted, or supplied as the empty
\* string or false, it puts nothing there.
C8_SuppliedParamOneFlagUnlessEmpty ==
    \A i \in ReqIds :
        Called(i) =>
            \A p \in OptionalParams(ToolOf(i)) \cap TokenParams(ToolOf(i)) :
                /\ Len(FlagTokens(i, p)) \in {0, 1}
                /\ IF Pushes(req[i].arguments[p])
                   THEN ArgsAround(i, p, FlagTokens(i, p) \o ValueTokens(req[i].arguments[p]))
                   ELSE spawnArgs[i] = BuildArgs(ToolOf(i), Without(req[i], p))

\* a diff request with from, context 0 and stat has reached execFile
C8_Witness ==
    /\ pc[1] = "waiting"
    /\ req[1] = Call(tool_diff, [from |-> JSString("$from"), context |-> JSNumber(0, FALSE),
                                 stat |-> JSBoolean(TRUE), to |-> JSString("")])
    /\ spawnArgs[1] = <<"diff", "-f", "$from", "--context", "0", "--stat">>

\* how often token tok occurs in args
Count(args, tok) == Cardinality({k \in 1..Len(args) : args[k] = tok})

ArrayParams(tool) == {p \in TokenParams(tool) : SchemaEntry(tool, p).type = "strarray"}

\* the flag git-fetch and git-push put before the elements of their array
SharedFlag(n, p) ==
    CASE n = "git-fetch" /\ p = "branches" -> <<"--branch">>
      [] n = "git-push" /\ p = "bookmarks" -> <<"--bookmark">>
      [] OTHER -> <<>>

C10_WaitDoesNotBlock ==
    \A i \in ReqIds, j \in ReqIds :
        (i # j /\ phase = "running" /\ pc[i] = "waiting" /\ proc[i].state = "running") =>
            /\ pc[j] = "received" => ENABLED Dispatch(j)
            /\ (pc[j] = "waiting" /\ proc[j].state = "settled") => ENABLED Resume(j)
            /\ (pc[j] = "free" /\ \A h \in ReqIds : h < j => pc[h] # "free") =>
                  \A r \in FewRequests : ENABLED Receive(j, r)

\* the second request has returned while the child of the first still runs
C10_Witness ==
    /\ pc[1] = "waiting"
    /\ proc[1].state = "running"
    /\ pc[2] = "returned"
    /\ spawns[2] = 1
    /\ result[2].kind = "response"


\* what request i is owed, computed from its own request and its own child
OwnResult(i) ==
    CASE pc[i] = "returned" ->
           Response(runJJCommand(BuildArgs(ToolOf(i), req[i].arguments),
                                 proc[i].outcome).value)
      [] pc[i] = "rejected" ->
           Rejection(IF IsRegistered(req[i].name) THEN "invalid arguments"
                     ELSE "tool not found")
      [] OTHER -> NoResult

\* a step touches what is kept for at most one request
OneSlotStep ==
    \E i \in ReqIds :
        \A j \in ReqIds \ {i} :
            /\ pc'[j] = pc[j] /\ req'[j] = req[j] /\ result'[j] = result[j]
            /\ spawnArgs'[j] = spawnArgs[j] /\ spawnOpts'[j] = spawnOpts[j]
            /\ spawns'[j] = spawns[j] /\ proc'[j] = proc[j]

OwnStateOnly ==
    \A i \in ReqIds :
        /\ result[i] = OwnResult(i)
        /\ Called(i) => /\ spawnArgs[i] = BuildArgs(ToolOf(i), req[i].arguments)
                        /\ spawnOpts[i] = CwdArg(ToolOf(i), req[i].arguments)

\* C11: however requests interleave, what a request gets back is computed
\* from its own parameters and the outcome of its own child alone, and no
\* step taken for one request changes what is kept for another.
C11_ResultFromOwnRequestOnly == []OwnStateOnly /\ [][OneSlotStep]_vars

\* two different requests whose children ended differently have both returned
C11_Witness ==
    /\ pc[1] = "returned" /\ pc[2] = "returned"
    /\ req[1].name = "rebase" /\ req[2].name = "status"
    /\ proc[1].outcome.kind = "exit" /\ proc[1].outcome.code = 1
    /\ proc[2].outcome.kind = "exit" /\ proc[2].outcome.code = 0
    /\ ReturnedText(1) = ErrorPrefix \o <<"e">>
    /\ ReturnedText(2) = <<"a">>

\* the server with the event loop running every callback that is ready
SpecLive == Init /\ [][Next]_vars /\ \A i \in ReqIds : WF_vars(Resume(i))

\* a result exists only once the child has ended
NoResultWhileRunning ==
    \A i \in ReqIds :
        /\ pc[i] = "returned" => proc[i].state = "settled"
        /\ proc[i].state = "running" => pc[i] = "waiting" /\ result[i] = NoResult

\* a running child is left alone until it ends, and a result is final
NoCancelNoSecondResult ==
    \A i \in ReqIds :
        /\ proc[i].state = "running" => proc'[i].state \in {"running", "settled"}
        /\ proc[i].state = "running" /\ proc'[i].state = "running" => result'[i] = NoResult
        /\ pc[i] = "returned" => pc'[i] = "returned" /\ result'[i] = result[i]

\* C12: there is no timeout and no cancellation. While its child runs a
\* request has no result, for as long as that lasts; once the child has
\* ended the request eventually returns a result, and that result never
\* changes afterwards.
C12_NoTimeoutOneResult ==
    /\ []NoResultWhileRunning
    /\ [][NoCancelNoSecondResult]_vars
    /\ \A i \in ReqIds :
          (proc[i].state = "settled") ~> (pc[i] = "returned" /\ result[i].kind = "response")

\* one request has returned while the child of the other still runs and
\* that other has nothing yet
C12_Witness ==
    /\ pc[2] = "waiting" /\ proc[2].state = "running" /\ result[2] = NoResult
    /\ pc[1] = "returned" /\ proc[1].state = "settled" /\ result[1].kind = "response"

\* C13: there are no retries. A request that passed validation has had
\* execFile called for it exactly once, however that run ended; any other
\* request never.
C13_SpawnedExactlyOnce ==
    \A i \in ReqIds :
        /\ spawns[i] \in {0, 1}
        /\ Called(i) <=> spawns[i] = 1
        /\ proc[i].state # "none" <=> spawns[i] = 1
        /\ (pc[i] = "returned" /\ ~ExitedWith(i, IsZero)) =>
              spawns[i] = 1 /\ StartsWith(ReturnedText(i), ErrorPrefix)

\* one request has returned after jj could not be started, another after a
\* non-zero exit, each having spawned once
C13_Witness ==
    /\ pc[1] = "returned" /\ proc[1].outcome.kind = "error" /\ spawns[1] = 1
    /\ pc[2] = "returned" /\ ExitedWith(2, NonZero) /\ spawns[2] = 1

RunningMessage == "jj MCP Server running on stdio"
FatalMessage == "Fatal error in jj MCP Server:"

Logged(m) == \E k \in 1..Len(diag) : diag[k] = m

\* C14: the process exits only when connecting the transport fails. Once a
\* request has been received, whatever becomes of it (rejected by
\* validation, non-zero exit, failure to start jj), the process lives on.
C14_ExitOnlyAtStartup ==
    /\ phase = "exited" => pc = Quiet /\ ~Logged(RunningMessage)
    /\ \A i \in ReqIds : pc[i] # "free" => phase = "running" /\ exitStatus = -1

\* one request was rejected by validation and another returned after jj
\* could not be started; the process runs
C14_Witness ==
    /\ phase = "running" /\ exitStatus = -1
    /\ pc[1] = "rejected" /\ result[1] = Rejection("invalid arguments")
    /\ pc[2] = "returned" /\ proc[2].outcome = SpawnFailed("ENOENT")

\* C15: when connecting the transport fails the process has logged the
\* fatal-error line and exits with status 1; the "running on stdio" line is
\* logged only once the transport is connected.
C15_FatalStartup ==
    /\ phase = "exited" => exitStatus = 1 /\ diag = <<FatalMessage>>
    /\ exitStatus # -1 => phase = "exited"
    /\ Logged(RunningMessage) <=> phase = "running"
    /\ Logged(FatalMessage) <=> phase = "exited"

\* the process has exited after connect failed
C15_Witness ==
    /\ phase = "exited"
    /\ exitStatus = 1
    /\ diag = <<FatalMessage>>
    /\ registered = ToolNames

\* C16: every tool is registered, each under a name of its own, before the
\* transport is connected, and from then on the registered set stays what it
\* was: no request adds, removes or renames a tool.
C16_ToolsFixedAtStartup ==
    /\ phase # "loading" => registered = ToolNames
    /\ \A j, k \in 1..Len(registered) : j # k => registered[j] # registered[k]
    /\ \A i \in ReqIds : pc[i] # "free" => registered = ToolNames

\* a call to a name that is not registered was refused and another request
\* has returned; the registered tools are those of startup
C16_Witness ==
    /\ phase = "running"
    /\ pc[1] = "rejected" /\ req[1].name = "no-such-tool"
    /\ pc[2] = "returned"
    /\ registered = ToolNames

\* the argument of request i named p is a non-empty string
SuppliedString(i, p) ==
    /\ p \in DOMAIN req[i].arguments
    /\ req[i].arguments[p].t = "string"
    /\ req[i].arguments[p].s # ""

\* the argument of request i named p is absent
Omitted(i, p) == p \in DOMAIN req[i].arguments => req[i].arguments[p] = JSUndefined

\* args holds --repository once, and the repoPath of request i right after it
RepositoryOnce(i) ==
    /\ Count(spawnArgs[i], "--repository") = 1
    /\ \E k \in 1..(Len(spawnArgs[i]) - 1) :
          /\ spawnArgs[i][k] = "--repository"
          /\ spawnArgs[i][k + 1] = req[i].arguments["repoPath"].s

\* C17 as stated: for every registered tool, a non-empty repoPath puts
\* --repository and then its value into args exactly once, and an omitted
\* repoPath puts no --repository there.
C17_RepositoryUniform ==
    \A i \in ReqIds :
        Called(i) =>
            /\ SuppliedString(i, "repoPath") => RepositoryOnce(i)
            /\ Omitted(i, "repoPath") => Count(spawnArgs[i], "--repository") = 0

\* the tools whose schema declares no repoPath
WithoutRepoPath ==
    {ToolCalls[k].name : k \in {h \in 1..Len(ToolCalls) : "repoPath" \notin ParamNames(ToolCalls[h])}}

\* C17 (amended): for every tool but git-clone and init, a non-empty
\* repoPath puts --repository and then its value into args exactly once and
\* an omitted one puts no --repository there; git-clone and init declare no
\* repoPath and never put --repository into args, whatever is sent.
C17_RepositoryUniformWhereDeclared ==
    /\ WithoutRepoPath = {"git-clone", "init"}
    /\ \A i \in ReqIds :
          Called(i) =>
              IF req[i].name \in WithoutRepoPath
              THEN Count(spawnArgs[i], "--repository") = 0
              ELSE /\ SuppliedString(i, "repoPath") => RepositoryOnce(i)
                   /\ Omitted(i, "repoPath") => Count(spawnArgs[i], "--repository") = 0

\* a describe request with a repoPath and a message has reached execFile
C17_Witness ==
    /\ pc[1] = "waiting"
    /\ req[1].name = "describe"
    /\ SuppliedString(1, "repoPath")
    /\ spawnArgs[1] = <<"describe", "--repository", "$repoPath", "-m", "$message">>

\* the arguments of request i with parameter p set to v
With(i, p, v) == [req[i].arguments EXCEPT ![p] = v]

\* the values a string parameter is compared over
StringChoices == {JSUndefined, JSString(""), JSString("$other")}

\* C18: for every tool that takes cwd, requests that differ only in cwd
\* build the same args, the cwd value goes to execFile's cwd option and
\* nowhere into args, and repoPath has no influence on that option; the two
\* tools that take no cwd pass none.
C18_CwdOrthogonal ==
    /\ \A k \in 1..Len(ToolCalls) : ToolCalls[k].cwd <=> "cwd" \in ParamNames(ToolCalls[k])
    /\ \A i \in ReqIds :
          Called(i) =>
              IF ToolOf(i).cwd
              THEN /\ \A v \in StringChoices :
                         BuildArgs(ToolOf(i), With(i, "cwd", v)) = spawnArgs[i]
                   /\ spawnOpts[i] = req[i].arguments["cwd"]
                   /\ SuppliedString(i, "cwd") =>
                         Count(spawnArgs[i], req[i].arguments["cwd"].s) = 0
                   /\ \A v \in StringChoices :
                         CwdArg(ToolOf(i), With(i, "repoPath", v)) = spawnOpts[i]
              ELSE spawnOpts[i] = JSUndefined

\* a log request with cwd, repoPath and limit has reached execFile
C18_Witness ==
    /\ pc[1] = "waiting"
    /\ req[1] = Call(tool_log, [cwd |-> JSString("$cwd"), repoPath |-> JSString("$repoPath"),
                                limit |-> JSNumber(1, FALSE)])
    /\ spawnArgs[1] = <<"log", "--repository", "$repoPath", "-n", "1">>
    /\ spawnOpts[1] = JSString("$cwd")

\* the literals a statement begins with that are not options
RECURSIVE LeadingPath(_)
LeadingPath(items) ==
    IF items # <<>> /\ Head(items).k = "lit" /\ Head(items).v \notin Flags
    THEN <<Head(items).v>> \o LeadingPath(Tail(items))
    ELSE <<>>

\* the subcommand path of a tool: what its args literal begins with
SubcommandPath(tool) == LeadingPath(tool.steps[1].items)

\* the subcommand path of each registered tool, in registration order
ToolPaths == [k \in 1..Len(ToolCalls) |-> SubcommandPath(ToolCalls[k])]

\* the statements of a handler with the subcommand path taken out
AfterPath(tool) ==
    [tool.steps EXCEPT ![1].items = SubSeq(@, Len(SubcommandPath(tool)) + 1, Len(@))]

\* item m of a statement comes from a parameter: it is a parameter's value,
\* or an option pushed under a parameter's guard or right before a value
FromParam(step, m) ==
    \/ step.items[m].k # "lit"
    \/ /\ step.items[m].v \in Flags
       /\ \/ step.guard # "always"
          \/ m < Len(step.items) /\ step.items[m + 1].k # "lit"

\* args of request i is the path, then only tokens that come from parameters
PathThenParams(i) ==
    LET tool == ToolOf(i)
        path == SubcommandPath(tool)
        rest == AfterPath(tool)
    IN /\ spawnArgs[i] = path \o BuildPrefix(rest, Len(rest), req[i].arguments)
       /\ \A k \in 1..Len(rest) : \A m \in 1..Len(rest[k].items) : FromParam(rest[k], m)
       /\ \A k \in (Len(path) + 1)..Len(spawnArgs[i]) :
             \/ spawnArgs[i][k] \in Flags
             \/ \E p \in ParamNames(tool) :
                   \E e \in 1..Len(ValueTokens(req[i].arguments[p])) :
                       ValueTokens(req[i].arguments[p])[e] = spawnArgs[i][k]

\* C19 as stated: args begins with the tool's fixed subcommand path, which
\* is one or two tokens long, and every token after it comes from a
\* parameter.
C19_PathOfOneOrTwo ==
    \A i \in ReqIds :
        Called(i) => Len(SubcommandPath(ToolOf(i))) \in {1, 2} /\ PathThenParams(i)

\* the tools whose subcommand path has three tokens
ThreeTokenPath ==
    {"git-remote-add", "git-remote-list", "git-remote-remove", "git-remote-rename",
     "git-remote-set-url"}

\* C19 (amended): args begins with the tool's fixed subcommand path, which
\* is three tokens long for the five git-remote tools (git, remote and the
\* action) and one or two tokens long for every other tool, no two tools
\* share a path, and every token after it comes from a parameter.
C19_PathOfOneToThree ==
    \A i \in ReqIds :
          Called(i) =>
              /\ \A b \in 1..Len(ToolCalls) :
                    ToolCalls[b].name # req[i].name => ToolPaths[b] # SubcommandPath(ToolOf(i))
              /\ IF req[i].name \in ThreeTokenPath
                 THEN SubSeq(spawnArgs[i], 1, 2) = <<"git", "remote">>
                      /\ Len(SubcommandPath(ToolOf(i))) = 3
                 ELSE Len(SubcommandPath(ToolOf(i))) \in {1, 2}
              /\ PathThenParams(i)

\* a git-remote-add request has reached execFile
C19_Witness ==
    /\ pc[1] = "waiting"
    /\ req[1].name = "git-remote-add"
    /\ spawnArgs[1] = <<"git", "remote", "add", "$name", "$url">>

\* C20: rebase with source S and destination D builds
\* [rebase, --source, S, --destination, D], followed by [--repository, P]
\* exactly when a non-empty repoPath P is given.
C20_RebaseArgs ==
    /\ BuildArgs(tool_rebase,
                 Call(tool_rebase, [source |-> JSString("@-"),
                                    destination |-> JSString("main")]).arguments)
          = <<"rebase", "--source", "@-", "--destination", "main">>
    /\ \A i \in ReqIds :
          (Called(i) /\ req[i].name = "rebase") =>
              spawnArgs[i] =
                  <<"rebase", "--source", req[i].arguments["source"].s,
                    "--destination", req[i].arguments["destination"].s>>
                  \o (IF SuppliedString(i, "repoPath")
                      THEN <<"--repository", req[i].arguments["repoPath"].s>>
                      ELSE <<>>)

\* a rebase request with source, destination and repoPath has reached execFile
C20_Witness ==
    /\ pc[1] = "waiting"
    /\ req[1].name = "rebase"
    /\ spawnArgs[1] = <<"rebase", "--source", "$source", "--destination", "$destination",
                        "--repository", "$repoPath">>

\* C21: every request that passed validation gets back a response whose
\* content is exactly one block, of type "text", holding the string
\* runJJCommand returned, whether jj succeeded or failed.
C21_OneTextBlock ==
    \A i \in ReqIds :
        /\ pc[i] = "returned" =>
              /\ result[i].kind = "response"
              /\ Len(result[i].content) = 1
              /\ result[i].content[1].type = "text"
              /\ result[i].content[1].text =
                    runJJCommand(spawnArgs[i], proc[i].outcome).value
        /\ pc[i] = "waiting" => result[i] = NoResult

\* a request has returned one text block after its child was killed
C21_Witness ==
    /\ pc[1] = "returned"
    /\ proc[1].outcome.kind = "signal"
    /\ Len(result[1].content) = 1
    /\ result[1].content[1].type = "text"
    /\ StartsWith(result[1].content[1].text, ErrorPrefix)

\* the tool names of the README's Available Tools section
ReadmeTools ==
    {"status", "log", "show", "diff", "interdiff",
     "rebase", "commit", "new", "abandon", "revert", "restore", "edit",
     "bookmark-create", "bookmark-list", "bookmark-move",
     "git-clone", "git-push", "git-fetch", "git-export",
     "file-annotate", "file-list", "file-show", "file-track", "file-untrack",
     "file-chmod"}

\* the jj subcommand a README tool name stands for: the name itself, or the
\* group (bookmark, git, file) the name begins with
ReadmeSubcommand(n) ==
    CASE n \in {"bookmark-create", "bookmark-list", "bookmark-move"} -> "bookmark"
      [] n \in {"git-clone", "git-push", "git-fetch", "git-export"} -> "git"
      [] n \in {"file-annotate", "file-list", "file-show", "file-track", "file-untrack",
                "file-chmod"} -> "file"
      [] OTHER -> n

\* every README name is the name of a server.tool call
ReadmeToolsExist ==
    \A n \in ReadmeTools : \E k \in 1..Len(ToolCalls) : ToolCalls[k].name = n

\* C22: every tool name the README lists is registered under exactly that
\* name, once, and a call to it runs a handler whose first token is the jj
\* subcommand the name stands for.
C22_ReadmeToolsRegistered ==
    /\ ReadmeToolsExist
    /\ \A i \in ReqIds :
          (pc[i] # "free" /\ req[i].name \in ReadmeTools) =>
              /\ Count(registered, req[i].name) = 1
              /\ result[i] # Rejection("tool not found")
              /\ Called(i) => spawnArgs[i][1] = ReadmeSubcommand(req[i].name)

\* a file-untrack request has reached execFile
C22_Witness ==
    /\ pc[1] = "waiting"
    /\ req[1].name = "file-untrack"
    /\ spawnArgs[1] = <<"file", "untrack", "$paths.1">>

\* request i has returned after a failure that left standard error empty
EmptyStderrFailure(i) ==
    /\ pc[i] = "returned"
    /\ \/ proc[i].outcome.kind = "error"
       \/ ExitedWith(i, NonZero) /\ proc[i].outcome.err = <<>>

\* the message of the Error execFile makes for such a failure
FailureMessage(i) ==
    CASE proc[i].outcome.kind = "error" ->
           <<"spawn", " ", "jj", " ", proc[i].outcome.sys>>
      [] Len(proc[i].outcome.out) > maxBuffer ->
           <<"stdout", " ", "maxBuffer length exceeded">>
      [] OTHER ->
           <<"Command failed: ">> \o JoinSpace(<<"jj">> \o spawnArgs[i]) \o <<"\n">>

\* C23: when jj fails with nothing on standard error (a non-zero exit that
\* wrote nothing there, or a failure to start), the text returned is
\* "Error: " followed by the message of the failure itself, which is not
\* empty.
C23_EmptyStderrUsesMessage ==
    \A i \in ReqIds :
        EmptyStderrFailure(i) =>
            /\ ReturnedText(i) = ErrorPrefix \o FailureMessage(i)
            /\ Len(ReturnedText(i)) > Len(ErrorPrefix)

\* a status request has returned after jj exited 1 with an empty standard error
C23_Witness ==
    /\ pc[1] = "returned"
    /\ proc[1].outcome = Exited(1, <<"a">>, <<>>, "")
    /\ ReturnedText(1) = ErrorPrefix \o <<"Command failed: ", "jj", " ", "status", "\n">>

\* C24: whenever jj fails, whatever it wrote to standard error (whitespace
\* alone included), the text after "Error: " is not empty.
C24_DiagnosticNonEmpty ==
    \A i \in ReqIds :
        (pc[i] = "returned" /\ ~ExitedWith(i, IsZero)) =>
            /\ StartsWith(ReturnedText(i), ErrorPrefix)
            /\ Len(ReturnedText(i)) > Len(ErrorPrefix)

\* the integer parameters declared .int().positive()
PositiveParams ==
    {<<"log", "limit">>, <<"evolog", "limit">>, <<"operation-log", "limit">>,
     <<"git-clone", "depth">>}

\* the integer parameters declared .int().nonnegative()
NonNegativeParams ==
    {<<"diff", "context">>, <<"show", "context">>, <<"interdiff", "context">>,
     <<"operation-diff", "context">>}

IsInteger(v) == v.t = "number" /\ ~v.frac

\* the value of parameter p of request i is one its constraint lets through
WithinConstraint(i, p) ==
    LET v == req[i].arguments[p] IN
    CASE <<req[i].name, p>> \in PositiveParams -> ~Defined(v) \/ (IsInteger(v) /\ v.n > 0)
      [] <<req[i].name, p>> \in NonNegativeParams -> ~Defined(v) \/ (IsInteger(v) /\ v.n >= 0)
      [] req[i].name = "file-chmod" /\ p = "mode" -> v.t = "string" /\ v.s \in {"x", "n"}
      [] OTHER -> TRUE

\* C25: limit and depth pass only as integers above zero, context only as an
\* integer of zero or more, file-chmod's mode only as "x" or "n"; a request
\* with any other value there is rejected with nothing spawned, and a
\* request is rejected only for a value that breaks its schema.
C25_ConstrainedBeforeBuild ==
    \A i \in ReqIds :
        (pc[i] # "free" /\ IsRegistered(req[i].name)) =>
            /\ \A p \in ParamNames(ToolOf(i)) :
                  /\ SchemaEntry(ToolOf(i), p).type = "posint"
                        <=> <<req[i].name, p>> \in PositiveParams
                  /\ SchemaEntry(ToolOf(i), p).type = "nonnegint"
                        <=> <<req[i].name, p>> \in NonNegativeParams
                  /\ SchemaEntry(ToolOf(i), p).type = "enum_xn"
                        <=> (req[i].name = "file-chmod" /\ p = "mode")
                  /\ ~WithinConstraint(i, p) =>
                        /\ spawns[i] = 0
                        /\ spawnArgs[i] = <<>>
                        /\ pc[i] \in {"received", "rejected"}
            /\ pc[i] = "rejected" =>
                  result[i].kind = "rejected" /\ ViolatesSchema(req[i])

\* an operation-log request with limit 0 was rejected, nothing spawned
C25_Witness ==
    /\ pc[1] = "rejected"
    /\ req[1].name = "operation-log"
    /\ req[1].arguments["limit"] = JSNumber(0, FALSE)
    /\ req[1].arguments["repoPath"] = JSUndefined
    /\ spawns[1] = 0

\* the option each integer parameter is pushed with
IntegerFlag(p) ==
    CASE p = "limit" -> "-n"
      [] p = "depth" -> "--depth"
      [] p = "context" -> "--context"

IntegerParams(tool) ==
    {p \in ParamNames(tool) : SchemaEntry(tool, p).type \in {"posint", "nonnegint"}}

\* args holds flag once, with tok right after it
FlagThen(args, flag, tok) ==
    /\ Count(args, flag) = 1
    /\ \E k \in 1..(Len(args) - 1) : args[k] = flag /\ args[k + 1] = tok

\* C26: every integer the schema accepted reaches args: a context of 0 gives
\* --context followed by "0", and every accepted limit or depth gives -n or
\* --depth followed by the number in decimal.
C26_AcceptedIntegerReachesArgs ==
    /\ NumberToString(0) = "0" /\ NumberToString(7) = "7" /\ NumberToString(10) = "10"
    /\ \A i \in ReqIds :
          Called(i) =>
              \A p \in IntegerParams(ToolOf(i)) :
                  LET v == req[i].arguments[p] IN
                  /\ p \in {"limit", "depth", "context"}
                  /\ IF Defined(v)
                     THEN /\ FlagThen(spawnArgs[i], IntegerFlag(p), NumberToString(v.n))
                          /\ v.n = 0 => FlagThen(spawnArgs[i], "--context", "0")
                          /\ v.n = 1 => FlagThen(spawnArgs[i], IntegerFlag(p), "1")
                     ELSE Count(spawnArgs[i], IntegerFlag(p)) = 0

\* a show request with context 0 has reached execFile
C26_Witness ==
    /\ pc[1] = "waiting"
    /\ req[1] = Call(tool_show, [context |-> JSNumber(0, FALSE)])
    /\ spawnArgs[1] = <<"show", "--context", "0">>

\* the options that take a value
ValueFlags ==
    {"--repository", "--source", "--destination", "-m", "-r", "-f", "-t", "-d", "-n",
     "-T", "--parents", "--remote", "--context", "--depth", "--git-repo", "--author",
     "--branch", "--bookmark"}

\* the parameters whose value a handler pushes right after option f
FlagOwners(tool, f) ==
    {p \in ParamNames(tool) :
        \E k \in 1..Len(tool.steps) :
            \E m \in 1..(Len(tool.steps[k].items) - 1) :
                /\ tool.steps[k].items[m] = Lit(f)
                /\ tool.steps[k].items[m + 1].k # "lit"
                /\ tool.steps[k].items[m + 1].v = p}

\* C27: wherever args holds an option that takes a value, the next token
\* exists and is a value of the parameter that option belongs to; so
\* --branch and --bookmark are never left without a value.
C27_ValueFlagsHaveValues ==
    \A i \in ReqIds :
        Called(i) =>
            \A k \in 1..Len(spawnArgs[i]) :
                spawnArgs[i][k] \in ValueFlags =>
                    /\ k < Len(spawnArgs[i])
                    /\ \E p \in FlagOwners(ToolOf(i), spawnArgs[i][k]) :
                          /\ ValueTokens(req[i].arguments[p]) # <<>>
                          /\ spawnArgs[i][k + 1] = ValueTokens(req[i].arguments[p])[1]

\* how often the empty string occurs in the tokens of the unguarded statements
RequiredEmptyTokens(i) ==
    Count(FixedTokens(ToolOf(i).steps, Len(ToolOf(i).steps), req[i].arguments), "")

\* an optional string given as "" or an optional boolean given as false
\* builds what leaving it out builds
EmptyIsOmitted(i) ==
    \A p \in OptionalParams(ToolOf(i)) :
        req[i].arguments[p] \in {JSString(""), JSBoolean(FALSE)} =>
            spawnArgs[i] = BuildArgs(ToolOf(i), Without(req[i], p))

\* C28 as stated: an optional string given as "" and an optional boolean
\* given as false build the same args as leaving the parameter out, and no
\* empty-string token in args comes from an optional parameter.
C28_NoEmptyTokenFromOptional ==
    \A i \in ReqIds :
        Called(i) =>
            /\ EmptyIsOmitted(i)
            /\ Count(spawnArgs[i], "") = RequiredEmptyTokens(i)

\* the optional array parameters of a tool
OptionalArrays(tool) == OptionalParams(tool) \cap ArrayParams(tool)

\* how many elements of the optional arrays of request i are the empty string
EmptyElements(i) ==
    Cardinality({pe \in OptionalArrays(ToolOf(i)) \X (1..(MaxArrayLen + 1)) :
                    /\ pe[2] <= Len(req[i].arguments[pe[1]].a)
                    /\ req[i].arguments[pe[1]].a[pe[2]] = ""})

\* C28 (amended): an optional string given as "" and an optional boolean
\* given as false build the same args as leaving the parameter out, so no
\* empty-string token in args comes from an optional string parameter; the
\* elements of an optional array are pushed as they are, the empty string
\* included.
C28_NoEmptyTokenFromOptionalString ==
    \A i \in ReqIds :
        Called(i) =>
            /\ EmptyIsOmitted(i)
            /\ Count(spawnArgs[i], "") = RequiredEmptyTokens(i) + EmptyElements(i)

\* a config-list request with name "", user false and repo true has reached
\* execFile
C28_Witness ==
    /\ pc[1] = "waiting"
    /\ req[1] = Call(tool_config_list, [name |-> JSString(""), user |-> JSBoolean(FALSE),
                                        repo |-> JSBoolean(TRUE)])
    /\ spawnArgs[1] = <<"config", "list", "--repo">>

\* C29: git-clone and init take neither override: whatever the request
\* carries, execFile gets no cwd option and args holds no --repository, nor
\* any value sent as repoPath or cwd.
C29_CloneInitNoOverride ==
    \A i \in ReqIds :
        (Called(i) /\ req[i].name \in {"git-clone", "init"}) =>
            /\ spawnOpts[i] = JSUndefined
            /\ Count(spawnArgs[i], "--repository") = 0
            /\ \A p \in {"repoPath", "cwd"} :
                  SuppliedString(i, p) => Count(spawnArgs[i], req[i].arguments[p].s) = 0

\* a git-clone request that carried both repoPath and cwd has reached execFile
C29_Witness ==
    /\ pc[1] = "waiting"
    /\ req[1].name = "git-clone"
    /\ SuppliedString(1, "repoPath") /\ SuppliedString(1, "cwd")
    /\ spawnArgs[1] = <<"git", "clone", "$source">>
    /\ spawnOpts[1] = JSUndefined

\* what the statement `if (p) args.push(flag..., p)` adds for request i
Opt(i, p, flag) ==
    IF Truthy(req[i].arguments[p]) THEN flag \o ValueTokens(req[i].arguments[p]) ELSE <<>>

\* the value tokens of a required parameter of request i
Req(i, p) == ValueTokens(req[i].arguments[p])

\* args as the grammar of jj wants them, per tool
OrderedArgs(i) ==
    CASE req[i].name = "describe" ->
           <<"describe">> \o Opt(i, "repoPath", <<"--repository">>)
             \o <<"-m">> \o Req(i, "message")
             \o Opt(i, "resetAuthor", <<"--reset-author">>)
             \o Opt(i, "author", <<"--author">>) \o Opt(i, "revisions", <<>>)
      [] req[i].name = "revert" ->
           <<"revert">> \o Opt(i, "destination", <<"-d">>) \o Req(i, "revisions")
             \o Opt(i, "repoPath", <<"--repository">>)
      [] req[i].name = "restore" ->
           <<"restore">> \o Opt(i, "source", <<"-f">>) \o Opt(i, "destination", <<"-t">>)
             \o Req(i, "paths") \o Opt(i, "repoPath", <<"--repository">>)
      [] req[i].name = "file-annotate" ->
           <<"file", "annotate">> \o Opt(i, "revision", <<"-r">>) \o Req(i, "path")
             \o Opt(i, "repoPath", <<"--repository">>)
      [] req[i].name = "file-show" ->
           <<"file", "show">> \o Opt(i, "revision", <<"-r">>) \o Req(i, "paths")
             \o Opt(i, "repoPath", <<"--repository">>)
      [] req[i].name = "file-chmod" ->
           <<"file", "chmod">> \o Opt(i, "revision", <<"-r">>) \o Req(i, "mode")
             \o Req(i, "paths") \o Opt(i, "repoPath", <<"--repository">>)
      [] req[i].name = "config-set" ->
           <<"config", "set">> \o Opt(i, "user", <<"--user">>) \o Opt(i, "repo", <<"--repo">>)
             \o Req(i, "name") \o Req(i, "value") \o Opt(i, "repoPath", <<"--repository">>)
      [] req[i].name = "config-unset" ->
           <<"config", "unset">> \o Opt(i, "user", <<"--user">>) \o Opt(i, "repo", <<"--repo">>)
             \o Req(i, "name") \o Opt(i, "repoPath", <<"--repository">>)

OrderedTools ==
    {"describe", "revert", "restore", "file-annotate", "file-show", "file-chmod",
     "config-set", "config-unset"}

\* C30: positional arguments keep their place whatever optional parameters
\* are given: describe builds [describe, (--repository P), -m, message,
\* (--reset-author), (--author A), (revisions)]; revert, restore,
\* file-annotate, file-show and file-chmod put -d, -f, -t, -r before their
\* positional tokens; config-set and config-unset put --user and --repo
\* before name (and value).
C30_PositionalOrder ==
    \A i \in ReqIds :
        (Called(i) /\ req[i].name \in OrderedTools) => spawnArgs[i] = OrderedArgs(i)

\* a describe request with every optional parameter has reached execFile
C30_Witness ==
    /\ pc[1] = "waiting"
    /\ req[1].name = "describe"
    /\ spawnArgs[1] = <<"describe", "--repository", "$repoPath", "-m", "$message",
                        "--reset-author", "--author", "$author", "$revisions">>
====
